---- MODULE Spec2Model ----
(***************************************************************************)
(* A model of the directory-extraction pipeline of usa-gov-scraper:        *)
(*   - the SQLite store (scripts/db_init.py) and the scripts that write    *)
(*     it: load_from_csv, crawl_contacts_from_db, schedule_crawl,          *)
(*     discover_gov_sites;                                                 *)
(*   - the record tools of scraper_agents/dynamic_agents.py               *)
(*     (NormalizeURLsTool, RemoveDuplicatesTool).                          *)
(*                                                                         *)
(* Text is modelled as a sequence of tokens (Str).  A token is an atom of  *)
(* one or more characters; the alphabet is prefix-free, so two token       *)
(* sequences are equal exactly when the character strings are.             *)
(***************************************************************************)
EXTENDS Integers, Sequences, FiniteSets, TLC

VARIABLES
    disk,       \* the committed (durable) content of the SQLite file
    conn,       \* the content as seen through the open connection
    run,        \* the running script: program, arguments, position, locals
    clock,      \* datetime.utcnow(), as a logical time
    hist,       \* history: what earlier runs and the current unit did
    procs,      \* concurrent writers: each one's position and locals
    lock,       \* holder of SQLite's RESERVED lock (0: nobody)
    tool        \* a record tool's input and its outputs

vars == <<disk, conn, run, clock, hist, procs, lock, tool>>

(***************************************************************************)
(* Strings                                                                 *)
(***************************************************************************)
EmptyStr == << >>

\* Python's None, which is no string.
None == <<"<None>">>

\* bool(x) of a string or None
Truthy(x) == x # None /\ x # EmptyStr

\* str.lower(), token by token.
LowerTok(t) ==
    CASE t = "EPA" -> "epa"
      [] t = "H.GOV" -> "h.gov"
      [] t = "USA.GOV" -> "usa.gov"
      [] t = "HTTPS:" -> "https:"
      [] t = "See USA.gov" -> "see usa.gov"
      [] t = "Not found" -> "not found"
      [] OTHER -> t

Lower(s) == [i \in 1..Len(s) |-> LowerTok(s[i])]

RECURSIVE LStrip(_)
LStrip(s) == IF s # << >> /\ Head(s) = " " THEN LStrip(Tail(s)) ELSE s

RECURSIVE RStrip(_)
RStrip(s) ==
    IF s # << >> /\ s[Len(s)] = " " THEN RStrip(SubSeq(s, 1, Len(s) - 1)) ELSE s

\* str.strip()
Strip(s) == RStrip(LStrip(s))

\* str.startswith(p)
StartsWith(s, p) == Len(s) >= Len(p) /\ SubSeq(s, 1, Len(p)) = p

\* The index of the first token of s that is in ts, Len(s) + 1 if there is none.
RECURSIVE FindFrom(_, _, _)
FindFrom(s, ts, i) ==
    IF i > Len(s) THEN Len(s) + 1
    ELSE IF s[i] \in ts THEN i ELSE FindFrom(s, ts, i + 1)

Find(s, ts) == FindFrom(s, ts, 1)

Take(s, n) == SubSeq(s, 1, n)
Drop(s, n) == SubSeq(s, n + 1, Len(s))

\* str.split(sep) for a one-token separator: a non-empty sequence of strings.
RECURSIVE Split(_, _)
Split(s, sep) ==
    LET i == Find(s, {sep})
    IN  IF i > Len(s) THEN <<s>>
        ELSE <<Take(s, i - 1)>> \o Split(Drop(s, i), sep)

\* sep.join(parts)
RECURSIVE Join(_, _)
Join(parts, sep) ==
    IF parts = << >> THEN << >>
    ELSE IF Len(parts) = 1 THEN parts[1]
    ELSE parts[1] \o <<sep>> \o Join(Tail(parts), sep)

SchemeHttps == <<"https:", "/", "/">>
SchemeHttp == <<"http:", "/", "/">>

(***************************************************************************)
(* urllib.parse, on the strings of the model: a reference with no scheme   *)
(* of its own, or an absolute http(s) URL.                                 *)
(***************************************************************************)
\* urlsplit(url): scheme, netloc, path, query and fragment of url.
UrlSplit(url) ==
    LET hasScheme == Len(url) >= 1 /\ url[1] \in {"https:", "http:", "HTTPS:"}
        rest0 == IF hasScheme THEN Tail(url) ELSE url
        hasNet == StartsWith(rest0, <<"/", "/">>)
        rest1 == IF hasNet THEN Drop(rest0, 2) ELSE rest0
        n == IF hasNet THEN Find(rest1, {"/", "?", "#"}) - 1 ELSE 0
        rest2 == Drop(rest1, n)
        f == Find(rest2, {"#"})
        beforeFrag == Take(rest2, f - 1)
        q == Find(beforeFrag, {"?"})
    IN  [scheme |-> IF hasScheme THEN <<url[1]>> ELSE << >>,
         netloc |-> Take(rest1, n),
         path |-> Take(beforeFrag, q - 1),
         query |-> Drop(beforeFrag, q),
         fragment |-> Drop(rest2, f)]

\* urlparse(url).netloc
Netloc(url) == UrlSplit(url).netloc

BaseHost == <<"www.usa.gov">>

\* urljoin("https://www.usa.gov", url) for a url that starts with "/".
UrlJoinBase(url) ==
    LET p == UrlSplit(url)
    IN  SchemeHttps
        \o (IF p.netloc # << >> THEN p.netloc ELSE BaseHost)
        \o p.path
        \o (IF p.query # << >> THEN <<"?">> \o p.query ELSE << >>)
        \o (IF p.fragment # << >> THEN <<"#">> \o p.fragment ELSE << >>)

(***************************************************************************)
(* NormalizeURLsTool._normalize_url                                        *)
(***************************************************************************)
TrackingParams == {"utm_source", "utm_medium", "utm_campaign", "utm_content", "utm_term"}

\* The parameters whose key is no tracking key, in order.
RECURSIVE CleanParams(_)
CleanParams(params) ==
    IF params = << >> THEN << >>
    ELSE LET param == Head(params)
             key == Split(param, "=")[1]
         IN  (IF Len(key) = 1 /\ key[1] \in TrackingParams THEN << >> ELSE <<param>>)
             \o CleanParams(Tail(params))

\* "Remove common tracking parameters"
StripTracking(url) ==
    LET i == Find(url, {"?"})
    IN  IF i > Len(url) THEN url
        ELSE LET base == Take(url, i - 1)
                 clean == CleanParams(Split(Drop(url, i), "&"))
             IN  IF clean # << >> THEN base \o <<"?">> \o Join(clean, "&") ELSE base

\* "Remove trailing slash"
StripTrailingSlash(url) ==
    IF url # << >> /\ url[Len(url)] = "/" /\ url # SchemeHttps
    THEN SubSeq(url, 1, Len(url) - 1) ELSE url

NormalizeUrl(u) ==
    IF u = << >> THEN u
    ELSE LET s == Strip(u)
             abs == IF StartsWith(s, SchemeHttp) \/ StartsWith(s, SchemeHttps) THEN s
                    ELSE IF s # << >> /\ Head(s) = "/" THEN UrlJoinBase(s)
                    ELSE SchemeHttps \o s
             noFrag == Split(abs, "#")[1]
         IN  StripTrailingSlash(StripTracking(noFrag))

(***************************************************************************)
(* RemoveDuplicatesTool.run                                                *)
(***************************************************************************)
DedupStart ==
    [seen_urls |-> << >>, seen_names |-> << >>,
     unique_records |-> << >>, duplicates_removed |-> 0]

\* A URL match where the incoming duplicate replaces the retained record.
MergeReplace(existing, record) == record

\* A URL match that drops the duplicate without enriching the retained record.
MergeIgnore(existing, record) == existing

\* "Merge with existing record if this one has more info"
MergeExisting(existing, record) ==
    IF ~Truthy(existing.parent_department) /\ Truthy(record.parent_department)
    THEN [existing EXCEPT !.parent_department = record.parent_department]
    ELSE existing

\* One turn of the loop over self.data.  seen_urls and seen_names are the
\* dicts, as sequences of <<key, index>> pairs looked up by key.
Lookup(pairs, key) ==
    LET hits == {i \in 1..Len(pairs) : pairs[i][1] = key}
    IN  IF hits = {} THEN 0 ELSE pairs[CHOOSE i \in hits : \A j \in hits : j <= i][2]

HasKey(pairs, key) == \E i \in 1..Len(pairs) : pairs[i][1] = key

DedupRecord(st, record) ==
    LET name == Lower(Strip(record.agency_name))
        url == Lower(Strip(record.homepage_url))
        url_domain == IF url # EmptyStr THEN Netloc(url) ELSE EmptyStr
        name_key == <<name, url_domain>>
    IN  IF url # EmptyStr /\ HasKey(st.seen_urls, url)
        THEN LET existing_idx == Lookup(st.seen_urls, url)
             IN  [st EXCEPT
                    !.unique_records[existing_idx] = MergeExisting(@, record),
                    !.duplicates_removed = @ + 1]
        ELSE IF name # EmptyStr /\ url_domain # EmptyStr /\ HasKey(st.seen_names, name_key)
        THEN [st EXCEPT !.duplicates_removed = @ + 1]
        ELSE LET idx == Len(st.unique_records) + 1
             IN  [st EXCEPT
                    !.seen_urls = IF url # EmptyStr THEN Append(@, <<url, idx>>) ELSE @,
                    !.seen_names = IF name # EmptyStr /\ url_domain # EmptyStr
                                   THEN Append(@, <<name_key, idx>>) ELSE @,
                    !.unique_records = Append(@, record)]

RECURSIVE DedupLoop(_, _)
DedupLoop(st, data) ==
    IF data = << >> THEN st ELSE DedupLoop(DedupRecord(st, Head(data)), Tail(data))

\* The result dict of run().
RemoveDuplicates(data) ==
    LET st == DedupLoop(DedupStart, data)
    IN  [original_count |-> Len(data),
         unique_count |-> Len(st.unique_records),
         duplicates_removed |-> st.duplicates_removed,
         unique_records |-> st.unique_records]

(***************************************************************************)
(* The store: the four tables of scripts/db_init.py.  A table is the       *)
(* sequence of its rows and a row's INTEGER PRIMARY KEY is its index: the  *)
(* pipeline never deletes a row.                                           *)
(***************************************************************************)
\* SQL NULL, in the integer columns department_id and last_scraped.
NULL == 0

EmptyDb ==
    [jurisdictions |-> << >>, departments |-> << >>,
     websites |-> << >>, contacts |-> << >>]

\* cur.fetchone() of a SELECT of the primary key: the first matching row's,
\* 0 when no row matches.
FirstRow(matching) ==
    IF matching = {} THEN 0 ELSE CHOOSE i \in matching : \A j \in matching : i <= j

\* f"https://{domain}"
HttpsUrl(domain) == SchemeHttps \o domain

\* LEVEL_ORDER.get(level, 5)
LevelOrder(level) ==
    CASE level = "federal" -> 1
      [] level = "state" -> 2
      [] level = "county" -> 3
      [] level = "city" -> 4
      [] OTHER -> 5

\* SELECT jurisdiction_id FROM jurisdictions WHERE name=? AND level=?
SelectJurisdiction(d, name, level) ==
    FirstRow({i \in 1..Len(d.jurisdictions) :
                d.jurisdictions[i].name = name /\ d.jurisdictions[i].level = level})

\* INSERT INTO jurisdictions (name, level, level_order, state_code, website_url)
InsertJurisdiction(d, name, level, level_order) ==
    [d EXCEPT !.jurisdictions =
        Append(@, [name |-> name, level |-> level, level_order |-> level_order])]

\* SELECT website_id FROM websites WHERE jurisdiction_id=? AND domain=?
SelectWebsite(d, jurisdiction_id, domain) ==
    FirstRow({i \in 1..Len(d.websites) :
                /\ d.websites[i].jurisdiction_id = jurisdiction_id
                /\ d.websites[i].domain = domain})

\* INSERT INTO websites (jurisdiction_id, department_id, domain, full_url, site_type)
InsertWebsite(d, jurisdiction_id, department_id, domain, full_url, site_type) ==
    [d EXCEPT !.websites =
        Append(@, [jurisdiction_id |-> jurisdiction_id, department_id |-> department_id,
                   domain |-> domain, full_url |-> full_url, site_type |-> site_type,
                   last_scraped |-> NULL])]

\* SELECT department_id FROM departments WHERE jurisdiction_id=? AND name=?
SelectDepartment(d, jurisdiction_id, name) ==
    FirstRow({i \in 1..Len(d.departments) :
                /\ d.departments[i].jurisdiction_id = jurisdiction_id
                /\ d.departments[i].name = name})

\* INSERT INTO departments (jurisdiction_id, name, category, description, website_url, ...)
InsertDepartment(d, jurisdiction_id, name, category, website_url) ==
    [d EXCEPT !.departments =
        Append(@, [jurisdiction_id |-> jurisdiction_id, name |-> name,
                   category |-> category, website_url |-> website_url])]

\* INSERT INTO contacts (department_id, contact_type, name, title, email, phone,
\* validation_status) VALUES (?, 'general', '', '', ?, ?, 'pending')
InsertContact(d, department_id, email, phone) ==
    [d EXCEPT !.contacts =
        Append(@, [department_id |-> department_id, contact_type |-> "general",
                   email |-> email, phone |-> phone, validation_status |-> "pending"])]

\* UPDATE websites SET last_scraped = ? WHERE website_id = ?
UpdateLastScraped(d, website_id, now) ==
    [d EXCEPT !.websites[website_id].last_scraped = now]

(***************************************************************************)
(* scripts/load_from_csv.py                                                *)
(***************************************************************************)
FederalName == <<"United States Federal Government">>

\* upsert_federal_jurisdiction: the database after it.
UpsertFederalJurisdiction(d) ==
    IF SelectJurisdiction(d, FederalName, "federal") # 0 THEN d
    ELSE InsertJurisdiction(d, FederalName, "federal", 1)

\* One row of the DictReader in load_agencies_csv: st is the database and the
\* set seen_departments.
LoadRow(st, row, federal_jid) ==
    LET name == Strip(row.agency_name)
        url == Strip(row.homepage_url)
        key == <<Lower(name), Lower(url)>>
    IN  IF name = EmptyStr \/ url = EmptyStr \/ Lower(url) = <<"see usa.gov">> THEN st
        ELSE IF key \in st.seen_departments THEN st
        ELSE LET d1 == InsertDepartment(st.db, federal_jid, name, "federal_agency", url)
                 dept_id == Len(d1.departments)
             IN  [db |-> InsertWebsite(d1, federal_jid, dept_id, Netloc(url), url,
                                       "department"),
                  seen_departments |-> st.seen_departments \cup {key},
                  inserted |-> st.inserted + 1]

RECURSIVE LoadRows(_, _, _)
LoadRows(st, rows, federal_jid) ==
    IF rows = << >> THEN st
    ELSE LoadRows(LoadRow(st, Head(rows), federal_jid), Tail(rows), federal_jid)

\* load_agencies_csv(conn, csv_path, federal_jid): the database after it and
\* the count it returns.
LoadAgenciesCsv(d, rows, federal_jid) ==
    LoadRows([db |-> d, seen_departments |-> {}, inserted |-> 0], rows, federal_jid)

(***************************************************************************)
(* Ordering: ORDER BY on a TEXT column and Python's sorted() compare        *)
(* strings character by character; TokenOrder lists the tokens that are    *)
(* compared, in that order.                                                *)
(***************************************************************************)
TokenOrder ==
    <<"202-555-0100", "a.gov", "b.gov", "c.us", "info@x.gov", "n.gov">>

TokRank(t) == CHOOSE i \in 1..Len(TokenOrder) : TokenOrder[i] = t

RECURSIVE StrLE(_, _)
StrLE(a, b) ==
    IF a = << >> THEN TRUE
    ELSE IF b = << >> THEN FALSE
    ELSE IF Head(a) = Head(b) THEN StrLE(Tail(a), Tail(b))
    ELSE TokRank(Head(a)) < TokRank(Head(b))

\* sorted(S) of a set of strings
RECURSIVE Sorted(_)
Sorted(S) ==
    IF S = {} THEN << >>
    ELSE LET m == CHOOSE x \in S : \A y \in S : StrLE(x, y)
         IN  <<m>> \o Sorted(S \ {m})

\* The orders in which a SELECT may return the rows ids: every arrangement
\* that its ORDER BY allows (le holds the pairs <<a, b>> where a may come
\* before b); rows that compare equal come in any order.
Arrangements(ids, le) ==
    {s \in [1..Cardinality(ids) -> ids] :
        /\ \A i, j \in 1..Cardinality(ids) : i # j => s[i] # s[j]
        /\ \A i, j \in 1..Cardinality(ids) : i < j => <<s[i], s[j]>> \in le}

\* LIMIT n
Limit(s, n) == IF Len(s) <= n THEN s ELSE SubSeq(s, 1, n)

\* FROM websites w JOIN jurisdictions j ON w.jurisdiction_id = j.jurisdiction_id
\* WHERE j.level = ?
LevelSites(d, level) ==
    {w \in 1..Len(d.websites) :
        /\ d.websites[w].jurisdiction_id \in 1..Len(d.jurisdictions)
        /\ d.jurisdictions[d.websites[w].jurisdiction_id].level = level}

\* ORDER BY w.last_scraped DESC: the most recently scraped first.
SchedOrderDesc(d, a, b) ==
    d.websites[a].last_scraped >= d.websites[b].last_scraped

\* ORDER BY CASE WHEN w.last_scraped IS NULL THEN 0 ELSE 1 END, w.last_scraped ASC
SchedOrder(d, a, b) ==
    LET nullsFirst(w) == IF d.websites[w].last_scraped = NULL THEN 0 ELSE 1
    IN  \/ nullsFirst(a) < nullsFirst(b)
        \/ /\ nullsFirst(a) = nullsFirst(b)
           /\ \/ d.websites[a].last_scraped = NULL
              \/ d.websites[a].last_scraped <= d.websites[b].last_scraped

\* schedule_crawl's SELECT ... LIMIT ?: the row sequences it may return.
SchedBatches(d, level, batch) ==
    LET ids == LevelSites(d, level)
        le == {ab \in ids \X ids : SchedOrder(d, ab[1], ab[2])}
    IN  {Limit(s, batch) : s \in Arrangements(ids, le)}

\* crawl_contacts_from_db's SELECT ... ORDER BY j.name LIMIT ?
CrawlBatches(d, level, limit) ==
    LET ids == LevelSites(d, level)
        le == {ab \in ids \X ids :
                 StrLE(d.jurisdictions[d.websites[ab[1]].jurisdiction_id].name,
                       d.jurisdictions[d.websites[ab[2]].jurisdiction_id].name)}
    IN  {Limit(s, limit) : s \in Arrangements(ids, le)}

(***************************************************************************)
(* The scripts, one statement group at a time.  One script is installed    *)
(* and runs again and again with the same arguments (run.args); conn is    *)
(* its sqlite3 connection, whose writes reach disk at conn.commit().       *)
(***************************************************************************)
MaxLinks == 1       \* contact-like links found on a homepage
MaxContacts == 2    \* no new run starts once this many contacts are stored
MaxClock == 3       \* no new scheduled run starts after this time
MaxBatch == 2       \* --limit / --batch

\* The database after scripts/ingest_authoritative_domains.py has ingested
\* a.gov (state), b.gov (state) and c.us (local): one jurisdiction and one
\* website per domain.
SeedSites ==
    <<[domain |-> <<"a.gov">>, level |-> "state"],
      [domain |-> <<"b.gov">>, level |-> "state"],
      [domain |-> <<"c.us">>, level |-> "local"]>>

RECURSIVE Ingest(_, _)
Ingest(d, sites) ==
    IF sites = << >> THEN d
    ELSE LET site == Head(sites)
             d1 == InsertJurisdiction(d, site.domain, site.level, LevelOrder(site.level))
             d2 == InsertWebsite(d1, Len(d1.jurisdictions), NULL, site.domain,
                                 HttpsUrl(site.domain), "jurisdiction")
         IN  Ingest(d2, Tail(sites))

SeedDb == Ingest(EmptyDb, SeedSites)

Levels == {"state", "local"}

\* The script that cron runs, again and again with the same arguments.
Scripts == {"crawl", "sched", "discover"}

\* What the pages of the web hold.
Emails == {<<"info@x.gov">>}
Phones == {<<"202-555-0100">>}
Discoverable == {<<"n.gov">>}

\* fetch(url): None, or a page with its addresses, numbers and contact links.
NoPage == [ok |-> FALSE, emails |-> {}, phones |-> {}, links |-> 0]

Pages ==
    {NoPage} \cup
    {[ok |-> TRUE, emails |-> e, phones |-> p, links |-> n] :
        e \in SUBSET Emails, p \in SUBSET Phones, n \in 0..MaxLinks}

\* detect_contact_links(base_url, soup)[:3]
FollowCap == 3

Min(a, b) == IF a <= b THEN a ELSE b

IdleRun(args) ==
    [prog |-> "idle", args |-> args, rows |-> << >>, i |-> 0,
     pc |-> "idle", emails |-> {}, phones |-> {}, links |-> 0, dept_id |-> 0,
     todo |-> << >>, domains |-> {}]

\* History: loads and afterFirst count the loader's runs and the rows after
\* its first; committed is the set of sites whose unit the current run has
\* committed, interrupted that of a crawl that was killed, resumed that of
\* the killed crawl the current crawl restarts; since is the time at which
\* the current scheduled run started; skipped says whether the discovery
\* run under way has passed over a seed whose fetch failed.
HistInit ==
    [loads |-> 0, afterFirst |-> <<0, 0>>,
     committed |-> {}, interrupted |-> {}, resumed |-> {}, since |-> 0,
     skipped |-> FALSE]

\* The run at the next row of its loop, or finished (conn.close()).
NextRow(r) ==
    IF r.i + 1 > Len(r.rows) THEN IdleRun(r.args)
    ELSE [r EXCEPT !.i = @ + 1, !.pc = "fetch", !.emails = {}, !.phones = {},
                   !.links = 0, !.dept_id = 0, !.todo = << >>]

\* The run when its SELECT has returned rows.
Started(r, prog, rows) ==
    IF rows = << >> THEN IdleRun(r.args)
    ELSE [IdleRun(r.args) EXCEPT !.prog = prog, !.rows = rows, !.i = 1,
                                             !.pc = "fetch"]

Site == conn.websites[run.rows[run.i]]

\* crawl_contacts_from_db.main: connect and SELECT the sites.
StartCrawl ==
    /\ run.prog = "idle"
    /\ run.args.script = "crawl"
    /\ Len(disk.contacts) < MaxContacts
    /\ \E rows \in CrawlBatches(conn, run.args.level, run.args.limit) :
          run' = Started(run, "crawl", rows)
    /\ hist' = [hist EXCEPT !.committed = {}, !.resumed = hist.interrupted,
                            !.interrupted = {}]
    /\ UNCHANGED <<disk, conn, clock, procs, lock, tool>>

\* schedule_crawl.main: connect and SELECT the batch.
StartSched ==
    /\ run.prog = "idle"
    /\ run.args.script = "sched"
    /\ Len(disk.contacts) < MaxContacts
    /\ clock <= MaxClock
    /\ \E rows \in SchedBatches(conn, run.args.level, run.args.limit) :
          run' = Started(run, "sched", rows)
    /\ hist' = [hist EXCEPT !.committed = {}, !.resumed = {}, !.since = clock]
    /\ UNCHANGED <<disk, conn, clock, procs, lock, tool>>

\* extract_contacts(html): the addresses and the numbers of the page.
ExtractContacts(page) == [emails |-> page.emails, phones |-> page.phones]

\* extract_contacts_from_page(html), which schedule_crawl imports from
\* crawl_contacts_from_db and that module does not define: the page's
\* contacts, as the crawler extracts them.
ExtractContactsFromPage(page) == [emails |-> page.emails, phones |-> page.phones]

Extract(prog, page) ==
    IF prog = "sched" THEN ExtractContactsFromPage(page) ELSE ExtractContacts(page)

\* html = fetch(base_url); if not html: continue; extract; detect the links.
FetchSite(prog) ==
    /\ run.prog = prog
    /\ run.pc = "fetch"
    /\ \E page \in Pages :
          IF ~page.ok
          THEN run' = NextRow(run)
          ELSE run' = [run EXCEPT !.emails = Extract(prog, page).emails,
                                  !.phones = Extract(prog, page).phones,
                                  !.links = Min(page.links, FollowCap),
                                  !.pc = IF page.links > 0 THEN "links" ELSE "upsert"]
    /\ UNCHANGED <<disk, conn, clock, hist, procs, lock, tool>>

\* for link in ...[:3]: sleep; page = fetch(link); extend emails and phones.
FetchLink(prog) ==
    /\ run.prog = prog
    /\ run.pc = "links"
    /\ \E page \in {q \in Pages : q.links = 0} :
          run' = [run EXCEPT !.emails = @ \cup Extract(prog, page).emails,
                             !.phones = @ \cup Extract(prog, page).phones,
                             !.links = @ - 1,
                             !.pc = IF run.links = 1 THEN "upsert" ELSE "links"]
    /\ UNCHANGED <<disk, conn, clock, hist, procs, lock, tool>>

\* The committed content after a statement that writes: the sqlite3 module
\* opens a transaction before an INSERT or UPDATE, so the file keeps its
\* content until conn.commit().  (Autocommit would publish the statement.)
DiskAutocommit(file, view) == view

DiskAfterWrite(file, view) == file

\* upsert_department_for_site(conn, jurisdiction_id, site_domain): the view after it.
UpsertDepartmentForSite(d, jurisdiction_id, site_domain) ==
    IF SelectDepartment(d, jurisdiction_id, site_domain) # 0 THEN d
    ELSE InsertDepartment(d, jurisdiction_id, site_domain, "government_site",
                          HttpsUrl(site_domain))

\* dept_id = upsert_department_for_site(...); sorted(set(emails)), sorted(set(phones))
UpsertDept(prog) ==
    /\ run.prog = prog
    /\ run.pc = "upsert"
    /\ LET d == UpsertDepartmentForSite(conn, Site.jurisdiction_id, Site.domain)
           mails == Sorted(run.emails)
           nums == Sorted(run.phones)
       IN  /\ conn' = d
           /\ disk' = DiskAfterWrite(disk, d)
           /\ run' = [run EXCEPT
                        !.dept_id = SelectDepartment(d, Site.jurisdiction_id, Site.domain),
                        !.todo = [k \in 1..Len(mails) |-> <<mails[k], EmptyStr>>]
                                 \o [k \in 1..Len(nums) |-> <<EmptyStr, nums[k]>>],
                        !.pc = "insert"]
    /\ UNCHANGED <<clock, hist, procs, lock, tool>>

\* insert_contacts: one INSERT of its two loops, or its return.
InsertContacts(prog) ==
    /\ run.prog = prog
    /\ run.pc = "insert"
    /\ IF run.todo = << >>
       THEN /\ run' = [run EXCEPT !.pc = IF prog = "sched" THEN "stamp" ELSE "commit"]
            /\ UNCHANGED <<disk, conn>>
       ELSE LET d == InsertContact(conn, run.dept_id, Head(run.todo)[1], Head(run.todo)[2])
            IN  /\ conn' = d
                /\ disk' = DiskAfterWrite(disk, d)
                /\ run' = [run EXCEPT !.todo = Tail(@)]
    /\ UNCHANGED <<clock, hist, procs, lock, tool>>

\* cur.execute("UPDATE websites SET last_scraped = ? ...", (datetime.utcnow()...))
StampSite ==
    /\ run.prog = "sched"
    /\ run.pc = "stamp"
    /\ LET d == UpdateLastScraped(conn, run.rows[run.i], clock)
       IN  /\ conn' = d
           /\ disk' = DiskAfterWrite(disk, d)
    /\ clock' = clock + 1
    /\ run' = [run EXCEPT !.pc = "commit"]
    /\ UNCHANGED <<hist, procs, lock, tool>>

\* conn.commit(); the counters; time.sleep(delay); the next row.
CommitSite(prog) ==
    /\ run.prog = prog
    /\ run.pc = "commit"
    /\ disk' = conn
    /\ run' = NextRow(run)
    /\ hist' = [hist EXCEPT !.committed = @ \cup {run.rows[run.i]}]
    /\ UNCHANGED <<conn, clock, procs, lock, tool>>

CrawlFetch == FetchSite("crawl")
CrawlLink == FetchLink("crawl")
CrawlUpsert == UpsertDept("crawl")
CrawlInsert == InsertContacts("crawl")
CrawlCommit == CommitSite("crawl")

SchedFetch == FetchSite("sched")
SchedLink == FetchLink("sched")
SchedUpsert == UpsertDept("sched")
SchedInsert == InsertContacts("sched")
SchedCommit == CommitSite("sched")

(***************************************************************************)
(* scripts/discover_gov_sites.py, with --from-level seeds                  *)
(***************************************************************************)
DefaultLevel == "local"

\* iter_urls_from_db: SELECT w.full_url ... WHERE j.level = ? LIMIT ?, which
\* states no order.
SeedLists(d, level, limit) ==
    LET ids == LevelSites(d, level)
    IN  {Limit(s, limit) : s \in Arrangements(ids, ids \X ids)}

\* upsert_jurisdiction(conn, name, level): the view after it.
UpsertJurisdiction(d, name, level) ==
    IF SelectJurisdiction(d, name, level) # 0 THEN d
    ELSE InsertJurisdiction(d, name, level, LevelOrder(level))

\* upsert_website(conn, jurisdiction_id, domain): the view after it.
UpsertWebsite(d, jurisdiction_id, domain) ==
    IF SelectWebsite(d, jurisdiction_id, domain) # 0 THEN d
    ELSE InsertWebsite(d, jurisdiction_id, NULL, domain, HttpsUrl(domain), "jurisdiction")

\* main: connect and build the list of seeds.
StartDiscover ==
    /\ run.prog = "idle"
    /\ run.args.script = "discover"
    /\ \E seeds \in SeedLists(conn, run.args.level, run.args.limit) :
          run' = IF seeds = << >>
                 THEN [IdleRun(run.args) EXCEPT !.prog = "discover",
                                                          !.pc = "commit"]
                 ELSE [IdleRun(run.args) EXCEPT !.prog = "discover",
                            !.rows = seeds, !.i = 1, !.pc = "seed"]
    /\ hist' = [hist EXCEPT !.committed = {}, !.resumed = {}]
    /\ UNCHANGED <<disk, conn, clock, procs, lock, tool>>

\* The run after a turn of the loop over the seeds that ends at the first
\* failed fetch.
SeedTurnAbort(r, html, found) ==
    IF ~html THEN IdleRun(r.args)
    ELSE IF r.i < Len(r.rows)
    THEN [r EXCEPT !.domains = @ \cup found, !.i = @ + 1]
    ELSE [r EXCEPT !.domains = @ \cup found, !.todo = Sorted(r.domains \cup found),
                   !.pc = "upsert"]

\* The run after one turn of "for i, url in enumerate(seeds, 1)": html is
\* whether fetch_html returned text, found what extract_gov_links returns;
\* after the last seed, sorted(discovered_domains).
SeedTurn(r, html, found) ==
    LET domains == IF html THEN r.domains \cup found ELSE r.domains
    IN  IF r.i < Len(r.rows)
        THEN [r EXCEPT !.domains = domains, !.i = @ + 1]
        ELSE [r EXCEPT !.domains = domains, !.todo = Sorted(domains),
                       !.pc = "upsert"]

\* html = fetch_html(url); if not html: continue; extract_gov_links.
DiscoverFetch ==
    /\ run.prog = "discover"
    /\ run.pc = "seed"
    /\ \E html \in BOOLEAN, found \in SUBSET Discoverable :
          /\ run' = SeedTurn(run, html, found)
          /\ hist' = [hist EXCEPT !.skipped = @ \/ ~html]
    /\ UNCHANGED <<disk, conn, clock, procs, lock, tool>>

\* One turn of "for domain in sorted(discovered_domains)", or the loop's end.
DiscoverUpsert ==
    /\ run.prog = "discover"
    /\ run.pc = "upsert"
    /\ IF run.todo = << >>
       THEN /\ run' = [run EXCEPT !.pc = "commit"]
            /\ UNCHANGED <<disk, conn>>
       ELSE LET domain == Head(run.todo)
                d1 == UpsertJurisdiction(conn, domain, DefaultLevel)
                jid == SelectJurisdiction(d1, domain, DefaultLevel)
                d2 == UpsertWebsite(d1, jid, domain)
            IN  /\ conn' = d2
                /\ disk' = DiskAfterWrite(disk, d2)
                /\ run' = [run EXCEPT !.todo = Tail(@)]
    /\ UNCHANGED <<clock, hist, procs, lock, tool>>

\* conn.commit(); conn.close()
DiscoverCommit ==
    /\ run.prog = "discover"
    /\ run.pc = "commit"
    /\ disk' = conn
    /\ run' = IdleRun(run.args)
    /\ hist' = [hist EXCEPT !.skipped = FALSE]
    /\ UNCHANGED <<conn, clock, procs, lock, tool>>

\* The process dies (a signal, a power loss): SQLite rolls the open
\* transaction back, and every committed transaction stays.
Crash ==
    /\ run.prog # "idle"
    /\ conn' = disk
    /\ run' = IdleRun(run.args)
    /\ hist' = [hist EXCEPT
                  !.interrupted = IF run.prog = "crawl" THEN hist.committed ELSE @,
                  !.skipped = FALSE]
    /\ UNCHANGED <<disk, clock, procs, lock, tool>>

NoProcs == << >>
NoTool == [op |-> "none"]

Init ==
    /\ disk = SeedDb
    /\ conn = SeedDb
    /\ \E script \in Scripts, level \in Levels, limit \in 1..MaxBatch :
          run = IdleRun([script |-> script, level |-> level, limit |-> limit])
    /\ clock = 1
    /\ hist = HistInit
    /\ procs = NoProcs
    /\ lock = 0
    /\ tool = NoTool

NextSched ==
    \/ StartSched
    \/ SchedFetch
    \/ SchedLink
    \/ SchedUpsert
    \/ SchedInsert
    \/ StampSite
    \/ SchedCommit

Next ==
    \/ NextSched
    \/ StartCrawl
    \/ CrawlFetch
    \/ CrawlLink
    \/ CrawlUpsert
    \/ CrawlInsert
    \/ CrawlCommit
    \/ StartDiscover
    \/ DiscoverFetch
    \/ DiscoverUpsert
    \/ DiscoverCommit
    \/ Crash

Spec == Init /\ [][Next]_vars

(***************************************************************************)
(* The scheduled crawler alone, run again and again by cron: every step    *)
(* that can be taken is eventually taken.                                  *)
(***************************************************************************)
InitFair == Init /\ run.args.script = "sched"

SpecFair == InitFair /\ [][NextSched]_vars /\ WF_vars(NextSched)

(***************************************************************************)
(* Claims about the crawl scripts                                          *)
(***************************************************************************)
LastScraped(w) == conn.websites[w].last_scraped

RowSet(rows) == {rows[k] : k \in 1..Len(rows)}

\* The rows of the current run whose fetch has been issued.
FetchedRows ==
    {run.rows[k] : k \in {j \in 1..Len(run.rows) :
                            j < run.i \/ (j = run.i /\ run.pc # "fetch")}}

\* C2: the contacts table holds at most one row per (department_id, email)
\* with a non-empty email and at most one per (department_id, phone) with a
\* non-empty phone, whatever crawl runs came before.
C2_OneContactPerValue ==
    \A i, j \in 1..Len(disk.contacts) :
        (i # j /\ disk.contacts[i].department_id = disk.contacts[j].department_id) =>
            /\ ~(disk.contacts[i].email # EmptyStr
                 /\ disk.contacts[i].email = disk.contacts[j].email)
            /\ ~(disk.contacts[i].phone # EmptyStr
                 /\ disk.contacts[i].phone = disk.contacts[j].phone)

\* C3: in a scheduled run, every website of the batch that the run has moved
\* past carries a last_scraped set during this run, whether its fetch
\* succeeded or failed.
C3_AttemptAdvancesSchedule ==
    run.prog = "sched" =>
        \A k \in 1..(run.i - 1) :
            /\ LastScraped(run.rows[k]) # NULL
            /\ LastScraped(run.rows[k]) >= hist.since

\* The model's bounds, not the script, keep a new run from starting.
Exhausted == clock > MaxClock \/ Len(disk.contacts) >= MaxContacts

\* C4: under repeated scheduled runs with a fixed level and batch size, every
\* website of the level is eventually selected into a run's batch.
C4_EverySiteEventuallySelected ==
    \A w \in 1..Len(SeedDb.websites) :
        <>(\/ w \notin LevelSites(SeedDb, run.args.level)
           \/ (run.prog = "sched" /\ w \in RowSet(run.rows))
           \/ Exhausted)

\* a comes strictly before b in the order "NULL first, then ascending".
StrictlyEarlier(a, b) ==
    \/ LastScraped(a) = NULL /\ LastScraped(b) # NULL
    \/ LastScraped(a) # NULL /\ LastScraped(b) # NULL /\ LastScraped(a) < LastScraped(b)

JustSelected == run.prog = "sched" /\ run.i = 1 /\ run.pc = "fetch"

\* C5: the batch just selected has at most `batch` websites, all of the
\* requested level, never-scraped ones before scraped ones and scraped ones
\* in ascending last_scraped order, and no website left out comes strictly
\* earlier in that order than one inside.
C5_BatchLeastRecentlyScraped ==
    JustSelected =>
        /\ Len(run.rows) <= run.args.limit
        /\ \A k \in 1..Len(run.rows) :
              conn.jurisdictions[conn.websites[run.rows[k]].jurisdiction_id].level
                  = run.args.level
        /\ \A i, j \in 1..Len(run.rows) :
              i < j => /\ run.rows[i] # run.rows[j]
                       /\ ~StrictlyEarlier(run.rows[j], run.rows[i])
        /\ \A w \in LevelSites(conn, run.args.level) \ RowSet(run.rows) :
              \A k \in 1..Len(run.rows) : ~StrictlyEarlier(w, run.rows[k])

\* A batch of two with a never-scraped site before a scraped one.
C5_Witness ==
    /\ JustSelected
    /\ Len(run.rows) = 2
    /\ LastScraped(run.rows[1]) = NULL
    /\ LastScraped(run.rows[2]) # NULL

\* new holds every row of old, unchanged but for a website's last_scraped.
Extends(old, new) ==
    /\ Len(new.jurisdictions) >= Len(old.jurisdictions)
    /\ SubSeq(new.jurisdictions, 1, Len(old.jurisdictions)) = old.jurisdictions
    /\ Len(new.departments) >= Len(old.departments)
    /\ SubSeq(new.departments, 1, Len(old.departments)) = old.departments
    /\ Len(new.contacts) >= Len(old.contacts)
    /\ SubSeq(new.contacts, 1, Len(old.contacts)) = old.contacts
    /\ Len(new.websites) >= Len(old.websites)
    /\ \A w \in 1..Len(old.websites) :
          [new.websites[w] EXCEPT !.last_scraped = NULL]
              = [old.websites[w] EXCEPT !.last_scraped = NULL]

\* d holds all the writes of the unit the run is at, made since old.
UnitWritten(old, d) ==
    IF run.prog = "discover"
    THEN \A domain \in run.domains :
            /\ SelectJurisdiction(d, domain, DefaultLevel) # 0
            /\ SelectWebsite(d, SelectJurisdiction(d, domain, DefaultLevel), domain) # 0
    ELSE LET fresh == (Len(old.contacts) + 1)..Len(d.contacts)
         IN  /\ run.dept_id # 0
             /\ SelectDepartment(d, Site.jurisdiction_id, Site.domain) = run.dept_id
             /\ \A e \in run.emails :
                   \E c \in fresh : /\ d.contacts[c].department_id = run.dept_id
                                    /\ d.contacts[c].email = e
             /\ \A n \in run.phones :
                   \E c \in fresh : /\ d.contacts[c].department_id = run.dept_id
                                    /\ d.contacts[c].phone = n
             /\ Cardinality(fresh) = Cardinality(run.emails) + Cardinality(run.phones)
             /\ run.prog = "sched" =>
                   /\ d.websites[run.rows[run.i]].last_scraped # NULL
                   /\ d.websites[run.rows[run.i]].last_scraped >= hist.since

\* C6: the committed database changes only at a unit's conn.commit(), which
\* makes all of the unit's writes durable at once and keeps every row that
\* was committed before; a failure at any other point leaves the committed
\* database as it was.
C6_UnitsCommitAtomically ==
    [][disk' # disk =>
          /\ run.pc = "commit"
          /\ disk' = conn
          /\ UnitWritten(disk, disk')
          /\ Extends(disk, disk')]_vars

\* A unit is under way with writes that are not committed, after an earlier
\* unit was committed.
C6_Witness ==
    /\ run.pc = "insert"
    /\ run.todo = << >>
    /\ Len(conn.contacts) > Len(disk.contacts)
    /\ Len(disk.contacts) > 0

\* C7: a crawl restarted after an interruption fetches no website whose unit
\* the interrupted run had committed.
C7_RestartSkipsCommittedUnits ==
    run.prog = "crawl" => FetchedRows \cap hist.resumed = {}

(***************************************************************************)
(* The loader, run on one agencies CSV against a fresh database            *)
(***************************************************************************)
MaxRows == 2        \* rows of the CSV file
MaxLoads == 2       \* runs of the loader

CsvNames == {EmptyStr, <<"epa">>, <<"EPA">>}
CsvUrls == {EmptyStr, HttpsUrl(<<"h.gov">>), <<"See USA.gov">>, <<"Not found">>}
CsvRows == [agency_name : CsvNames, homepage_url : CsvUrls]

RECURSIVE SeqsUpTo(_, _)
SeqsUpTo(S, n) ==
    IF n = 0 THEN {<< >>}
    ELSE LET shorter == SeqsUpTo(S, n - 1)
         IN  shorter \cup {Append(q, x) : q \in {r \in shorter : Len(r) = n - 1}, x \in S}

\* load_from_csv.main on the one file: upsert_federal_jurisdiction,
\* load_agencies_csv, conn.commit().
LoadMain ==
    /\ tool.op = "load"
    /\ hist.loads < MaxLoads
    /\ LET d1 == UpsertFederalJurisdiction(disk)
           federal_jid == SelectJurisdiction(d1, FederalName, "federal")
           d2 == LoadAgenciesCsv(d1, tool.csv, federal_jid).db
       IN  /\ disk' = d2
           /\ conn' = d2
           /\ hist' = [hist EXCEPT
                         !.loads = @ + 1,
                         !.afterFirst = IF hist.loads = 0
                                        THEN <<Len(d2.departments), Len(d2.websites)>>
                                        ELSE @]
    /\ UNCHANGED <<run, clock, procs, lock, tool>>

NoArgs == [script |-> "none", level |-> "state", limit |-> 1]

InitLoad ==
    /\ disk = EmptyDb
    /\ conn = EmptyDb
    /\ run = IdleRun(NoArgs)
    /\ clock = 1
    /\ hist = HistInit
    /\ procs = NoProcs
    /\ lock = 0
    /\ \E csv \in SeqsUpTo(CsvRows, MaxRows) : tool = [op |-> "load", csv |-> csv]

SpecLoad == InitLoad /\ [][LoadMain]_vars

\* C1: a second run of the loader on the same file leaves the number of
\* department rows and of website rows as the first run left them.
C1_ReloadAddsNoRows ==
    hist.loads >= 2 => <<Len(disk.departments), Len(disk.websites)>> = hist.afterFirst

(***************************************************************************)
(* Two processes that run the natural-key upserts against one database     *)
(* file.  A process reads the committed content, and its own writes once   *)
(* it writes; SQLite lets one process write at a time (the RESERVED lock,  *)
(* taken at the first INSERT and held until commit), and an INSERT that    *)
(* finds the lock taken waits for it, or gives up: "database is locked".   *)
(***************************************************************************)
MaxJobs == 1        \* upsert transactions per process

ProcIds == {1, 2}

\* What a process upserts: a discovered domain (jurisdiction and website),
\* or the synthetic department of a crawled site.
Jobs ==
    {[kind |-> "discover", domain |-> d, jid |-> 0] : d \in Discoverable}
    \cup {[kind |-> "crawl", domain |-> SeedDb.websites[w].domain,
           jid |-> SeedDb.websites[w].jurisdiction_id] : w \in 1..Len(SeedDb.websites)}

IdleProc == [pc |-> "idle", job |-> [kind |-> "none", domain |-> EmptyStr, jid |-> 0],
             txn |-> EmptyDb, done |-> 0]

\* What process p reads.
View(p) == IF lock = p THEN procs[p].txn ELSE disk

CanWrite(p) == lock \in {0, p}

Begin(p) ==
    /\ procs[p].pc = "idle"
    /\ procs[p].done < MaxJobs
    /\ \E job \in Jobs :
          procs' = [procs EXCEPT ![p].job = job,
                                 ![p].pc = IF job.kind = "discover" THEN "selJ" ELSE "selD"]
    /\ UNCHANGED <<disk, conn, run, clock, hist, lock, tool>>

\* upsert_jurisdiction: the SELECT, "if row: return row[0]"
SelectJ(p) ==
    /\ procs[p].pc = "selJ"
    /\ LET row == SelectJurisdiction(View(p), procs[p].job.domain, DefaultLevel)
       IN  procs' = [procs EXCEPT ![p].job.jid = row,
                                  ![p].pc = IF row # 0 THEN "selW" ELSE "insJ"]
    /\ UNCHANGED <<disk, conn, run, clock, hist, lock, tool>>

\* upsert_jurisdiction: the INSERT, "return cur.lastrowid"
InsertJ(p) ==
    /\ procs[p].pc = "insJ"
    /\ CanWrite(p)
    /\ LET d == InsertJurisdiction(View(p), procs[p].job.domain, DefaultLevel,
                                   LevelOrder(DefaultLevel))
       IN  procs' = [procs EXCEPT ![p].txn = d, ![p].job.jid = Len(d.jurisdictions),
                                  ![p].pc = "selW"]
    /\ lock' = p
    /\ UNCHANGED <<disk, conn, run, clock, hist, tool>>

\* upsert_website: the SELECT
SelectW(p) ==
    /\ procs[p].pc = "selW"
    /\ LET row == SelectWebsite(View(p), procs[p].job.jid, procs[p].job.domain)
       IN  procs' = [procs EXCEPT ![p].pc = IF row # 0 THEN "commit" ELSE "insW"]
    /\ UNCHANGED <<disk, conn, run, clock, hist, lock, tool>>

\* upsert_website: the INSERT
InsertW(p) ==
    /\ procs[p].pc = "insW"
    /\ CanWrite(p)
    /\ procs' = [procs EXCEPT
                   ![p].txn = InsertWebsite(View(p), procs[p].job.jid, NULL,
                                            procs[p].job.domain,
                                            HttpsUrl(procs[p].job.domain), "jurisdiction"),
                   ![p].pc = "commit"]
    /\ lock' = p
    /\ UNCHANGED <<disk, conn, run, clock, hist, tool>>

\* upsert_department_for_site: the SELECT
SelectD(p) ==
    /\ procs[p].pc = "selD"
    /\ LET row == SelectDepartment(View(p), procs[p].job.jid, procs[p].job.domain)
       IN  procs' = [procs EXCEPT ![p].pc = IF row # 0 THEN "commit" ELSE "insD"]
    /\ UNCHANGED <<disk, conn, run, clock, hist, lock, tool>>

\* upsert_department_for_site: the INSERT
InsertD(p) ==
    /\ procs[p].pc = "insD"
    /\ CanWrite(p)
    /\ procs' = [procs EXCEPT
                   ![p].txn = InsertDepartment(View(p), procs[p].job.jid,
                                               procs[p].job.domain, "government_site",
                                               HttpsUrl(procs[p].job.domain)),
                   ![p].pc = "commit"]
    /\ lock' = p
    /\ UNCHANGED <<disk, conn, run, clock, hist, tool>>

\* conn.commit()
CommitP(p) ==
    /\ procs[p].pc = "commit"
    /\ disk' = View(p)
    /\ lock' = IF lock = p THEN 0 ELSE lock
    /\ procs' = [procs EXCEPT ![p].pc = "idle", ![p].done = @ + 1, ![p].txn = EmptyDb]
    /\ UNCHANGED <<conn, run, clock, hist, tool>>

\* The INSERT waited for the lock longer than the connection's timeout:
\* sqlite3.OperationalError, and the script ends.
BusyTimeout(p) ==
    /\ procs[p].pc \in {"insJ", "insW", "insD"}
    /\ ~CanWrite(p)
    /\ procs' = [procs EXCEPT ![p].pc = "failed"]
    /\ UNCHANGED <<disk, conn, run, clock, hist, lock, tool>>

InitConc ==
    /\ disk = SeedDb
    /\ conn = SeedDb
    /\ run = IdleRun(NoArgs)
    /\ clock = 1
    /\ hist = HistInit
    /\ procs = [p \in ProcIds |-> IdleProc]
    /\ lock = 0
    /\ tool = NoTool

NextConc ==
    \E p \in ProcIds :
        \/ Begin(p)
        \/ SelectJ(p)
        \/ InsertJ(p)
        \/ SelectW(p)
        \/ InsertW(p)
        \/ SelectD(p)
        \/ InsertD(p)
        \/ CommitP(p)
        \/ BusyTimeout(p)

SpecConc == InitConc /\ [][NextConc]_vars

\* C8: the committed tables hold no two jurisdictions with the same
\* (name, level), no two department-less websites with the same
\* (jurisdiction_id, domain) and no two departments with the same
\* (jurisdiction_id, name), however the two processes' steps interleave.
C8_NaturalKeysUnique ==
    /\ \A i, j \in 1..Len(disk.jurisdictions) :
          (disk.jurisdictions[i].name = disk.jurisdictions[j].name
           /\ disk.jurisdictions[i].level = disk.jurisdictions[j].level) => i = j
    /\ \A i, j \in 1..Len(disk.websites) :
          (disk.websites[i].department_id = NULL
           /\ disk.websites[j].department_id = NULL
           /\ disk.websites[i].jurisdiction_id = disk.websites[j].jurisdiction_id
           /\ disk.websites[i].domain = disk.websites[j].domain) => i = j
    /\ \A i, j \in 1..Len(disk.departments) :
          (disk.departments[i].jurisdiction_id = disk.departments[j].jurisdiction_id
           /\ disk.departments[i].name = disk.departments[j].name) => i = j

(***************************************************************************)
(* The record tools, each applied to an input and then to its own output   *)
(***************************************************************************)
MaxRecs == 3        \* records in the deduplicator's input
MaxUrlLen == 4      \* tokens in the normalizer's input

DedupNames == {EmptyStr, <<"epa">>, <<"EPA", " ">>}
DedupUrls ==
    {EmptyStr, HttpsUrl(<<"h.gov">>), HttpsUrl(<<"h.gov", "/", "x">>),
     <<"HTTPS:", "/", "/", "H.GOV", " ">>}
DedupRecords ==
    [agency_name : DedupNames, homepage_url : DedupUrls,
     parent_department : {None, <<"Parent Dept">>}]

UrlAlphabet ==
    {"https:", "http:", "/", "#", "?", "&", "=", " ", "h.gov", "utm_source", "k"}

\* RemoveDuplicatesTool(data=...).run()
Dedup ==
    /\ tool.op = "dedup"
    /\ tool.pc = "input"
    /\ tool' = [tool EXCEPT !.pc = "once", !.once = RemoveDuplicates(tool.data)]
    /\ UNCHANGED <<disk, conn, run, clock, hist, procs, lock>>

\* RemoveDuplicatesTool(data=unique_records).run(), on the first run's output
DedupAgain ==
    /\ tool.op = "dedup"
    /\ tool.pc = "once"
    /\ tool' = [tool EXCEPT !.pc = "twice",
                            !.twice = RemoveDuplicates(tool.once.unique_records)]
    /\ UNCHANGED <<disk, conn, run, clock, hist, procs, lock>>

NoResult ==
    [original_count |-> 0, unique_count |-> 0, duplicates_removed |-> 0,
     unique_records |-> << >>]

InitTool(t) ==
    /\ disk = EmptyDb
    /\ conn = EmptyDb
    /\ run = IdleRun(NoArgs)
    /\ clock = 1
    /\ hist = HistInit
    /\ procs = NoProcs
    /\ lock = 0
    /\ tool = t

InitDedup ==
    \E data \in SeqsUpTo(DedupRecords, MaxRecs) :
        InitTool([op |-> "dedup", pc |-> "input", data |-> data,
                  once |-> NoResult, twice |-> NoResult])

SpecDedup == InitDedup /\ [][Dedup \/ DedupAgain]_vars

\* The deduplicator applied once.
SpecDedupOnce == InitDedup /\ [][Dedup]_vars

\* C9: the deduplicator applied to its own unique_records removes nothing:
\* duplicates_removed is 0 and the records come back the same, in order.
C9_DedupConverges ==
    (tool.op = "dedup" /\ tool.pc = "twice") =>
        /\ tool.twice.duplicates_removed = 0
        /\ tool.twice.unique_records = tool.once.unique_records

\* A second run on an output from which the first run removed duplicates,
\* by URL and by name.
C9_Witness ==
    /\ tool.op = "dedup"
    /\ tool.pc = "twice"
    /\ tool.once.duplicates_removed = 2
    /\ tool.once.unique_count = 1
    /\ tool.data[1].homepage_url # tool.data[2].homepage_url
    /\ tool.data[1].homepage_url # tool.data[3].homepage_url
    /\ tool.data[2].homepage_url # tool.data[3].homepage_url

\* tool._normalize_url(url)
Normalize ==
    /\ tool.op = "normalize"
    /\ tool.pc = "input"
    /\ tool' = [tool EXCEPT !.pc = "once", !.once = NormalizeUrl(tool.url)]
    /\ UNCHANGED <<disk, conn, run, clock, hist, procs, lock>>

\* tool._normalize_url(...) of the first result
NormalizeAgain ==
    /\ tool.op = "normalize"
    /\ tool.pc = "once"
    /\ tool' = [tool EXCEPT !.pc = "twice", !.twice = NormalizeUrl(tool.once)]
    /\ UNCHANGED <<disk, conn, run, clock, hist, procs, lock>>

InitNorm ==
    \E url \in SeqsUpTo(UrlAlphabet, MaxUrlLen) :
        InitTool([op |-> "normalize", pc |-> "input", url |-> url,
                  once |-> EmptyStr, twice |-> EmptyStr])

SpecNorm == InitNorm /\ [][Normalize \/ NormalizeAgain]_vars

\* C10: normalizing a normalized URL returns it unchanged.
C10_NormalizeIdempotent ==
    (tool.op = "normalize" /\ tool.pc = "twice") => tool.twice = tool.once

(***************************************************************************)
(* Claims about the deduplicator's first run                               *)
(***************************************************************************)
\* The keys of a record: url, and name|url_domain when both are non-empty.
UrlKey(record) == Lower(Strip(record.homepage_url))

NameKeyed(record) ==
    /\ Lower(Strip(record.agency_name)) # EmptyStr
    /\ UrlKey(record) # EmptyStr
    /\ Netloc(UrlKey(record)) # EmptyStr

NameKey(record) == <<Lower(Strip(record.agency_name)), Netloc(UrlKey(record))>>

DedupRan == tool.op = "dedup" /\ tool.pc \in {"once", "twice"}

\* The input positions with the URL key, and the output positions with it.
Occurrences(key) == {i \in 1..Len(tool.data) : UrlKey(tool.data[i]) = key}
Retained(key) ==
    {k \in 1..Len(tool.once.unique_records) : UrlKey(tool.once.unique_records[k]) = key}

\* The first occurrence, with the parent_department of the first later
\* occurrence that has one when its own is empty.
FirstMerged(occ) ==
    LET f == CHOOSE i \in occ : \A j \in occ : i <= j
        donors == {i \in occ : i > f /\ Truthy(tool.data[i].parent_department)}
        donor == CHOOSE i \in donors : \A j \in donors : i <= j
    IN  IF Truthy(tool.data[f].parent_department) \/ donors = {}
        THEN tool.data[f]
        ELSE [tool.data[f] EXCEPT !.parent_department = tool.data[donor].parent_department]

\* An earlier record has the same name|url_domain key as the first
\* occurrence of the URL key.
FirstIsNameDuplicate(occ) ==
    LET f == CHOOSE i \in occ : \A j \in occ : i <= j
    IN  \E j \in 1..(f - 1) :
            /\ NameKeyed(tool.data[j])
            /\ NameKeyed(tool.data[f])
            /\ NameKey(tool.data[j]) = NameKey(tool.data[f])

\* C11 as stated: whenever two input records have the same homepage_url
\* after trimming and lower-casing, the output holds exactly one record with
\* that URL, the first occurrence, enriched with a later duplicate's
\* parent_department when its own is empty.
C11_SameUrlKeepsFirst ==
    DedupRan =>
        \A i, j \in 1..Len(tool.data) :
            (i < j /\ UrlKey(tool.data[i]) = UrlKey(tool.data[j])) =>
                LET key == UrlKey(tool.data[i])
                IN  /\ Cardinality(Retained(key)) = 1
                    /\ \A k \in Retained(key) :
                          tool.once.unique_records[k] = FirstMerged(Occurrences(key))

\* C11, amended: for a non-empty URL key the output holds at most one record
\* with it; and when no earlier record has the name|domain key of the key's
\* first occurrence, the output holds exactly one, that first occurrence,
\* with the parent_department of the first later duplicate that has one when
\* its own is empty.
C11_SameUrlKeepsFirstRetained ==
    DedupRan =>
        \A key \in {UrlKey(tool.data[i]) : i \in 1..Len(tool.data)} \ {EmptyStr} :
            LET kept == Retained(key)
                occ == Occurrences(key)
            IN  /\ Cardinality(kept) <= 1
                /\ ~FirstIsNameDuplicate(occ) =>
                      /\ Cardinality(kept) = 1
                      /\ \A k \in kept : tool.once.unique_records[k] = FirstMerged(occ)

\* Two records whose URLs differ only by case and a trailing space, the
\* first without a parent_department and the second with one, collapsed to
\* the first with the second's parent_department.
C11_Witness ==
    /\ DedupRan
    /\ Len(tool.data) = 2
    /\ tool.data[1].homepage_url # tool.data[2].homepage_url
    /\ UrlKey(tool.data[1]) = UrlKey(tool.data[2])
    /\ tool.data[1].parent_department = None
    /\ tool.data[2].parent_department = <<"Parent Dept">>
    /\ tool.once.unique_records =
          <<[tool.data[1] EXCEPT !.parent_department = <<"Parent Dept">>]>>

(***************************************************************************)
(* scraper/core.py: GovernmentAgencyScraper.validate_data                  *)
(***************************************************************************)
MaxAgencies == 2    \* records in the validator's and the exporter's input

\* 'issues': issues[:20]
IssueCap == 20

\* The name check dropped.
NameIssuesNone(i, agency) == << >>

\* if not agency.get('agency_name'): append "Empty agency name at index {i}"
NameIssues(i, agency) ==
    IF ~Truthy(agency.agency_name) THEN <<<<"Empty agency name at index", i>>>> ELSE << >>

\* if not agency.get('homepage_url'): "Empty URL ..."; elif not
\* startswith(('http://', 'https://')): "Invalid URL format ..."
UrlIssues(i, agency) ==
    IF ~Truthy(agency.homepage_url) THEN <<<<"Empty URL at index", i>>>>
    ELSE IF ~(StartsWith(agency.homepage_url, SchemeHttp)
              \/ StartsWith(agency.homepage_url, SchemeHttps))
    THEN <<<<"Invalid URL format at index", i>>>>
    ELSE << >>

\* if not agency.get('section'): append "Missing section at index {i}"
SectionIssues(i, agency) ==
    IF ~Truthy(agency.section) THEN <<<<"Missing section at index", i>>>> ELSE << >>

\* agency_issues of the record at index i (enumerate counts from 0)
AgencyIssues(i, agency) ==
    NameIssues(i, agency) \o UrlIssues(i, agency) \o SectionIssues(i, agency)

\* The loop: the issues and valid_count after the records from position k on.
RECURSIVE ValidateLoop(_, _, _)
ValidateLoop(st, agencies, k) ==
    IF k > Len(agencies) THEN st
    ELSE LET agency_issues == AgencyIssues(k - 1, agencies[k])
         IN  ValidateLoop(
                 IF agency_issues # << >>
                 THEN [st EXCEPT !.issues = @ \o agency_issues]
                 ELSE [st EXCEPT !.valid_count = @ + 1],
                 agencies, k + 1)

\* The dict that validate_data returns.
ValidateData(agencies) ==
    LET st == ValidateLoop([issues |-> << >>, valid_count |-> 0], agencies, 1)
    IN  [total_agencies |-> Len(agencies),
         valid_agencies |-> st.valid_count,
         invalid_agencies |-> Len(agencies) - st.valid_count,
         issues |-> Limit(st.issues, IssueCap),
         validation_passed |-> (Len(st.issues) = 0)]

ValidNames == {EmptyStr, None, <<" ">>, <<"epa">>}
ValidUrls == {EmptyStr, <<"h.gov">>, HttpsUrl(<<"h.gov">>), SchemeHttp \o <<"h.gov">>}
ValidSections == {EmptyStr, <<"A">>}
ValidRecords ==
    [agency_name : ValidNames, homepage_url : ValidUrls, section : ValidSections]

\* scraper.validate_data(agencies)
Validate ==
    /\ tool.op = "validate"
    /\ tool.pc = "input"
    /\ tool' = [tool EXCEPT !.pc = "done", !.result = ValidateData(tool.agencies)]
    /\ UNCHANGED <<disk, conn, run, clock, hist, procs, lock>>

NoValidation ==
    [total_agencies |-> 0, valid_agencies |-> 0, invalid_agencies |-> 0,
     issues |-> << >>, validation_passed |-> TRUE]

InitValidate ==
    \E agencies \in SeqsUpTo(ValidRecords, MaxAgencies) :
        InitTool([op |-> "validate", pc |-> "input", agencies |-> agencies,
                  result |-> NoValidation])

SpecValidate == InitValidate /\ [][Validate]_vars

\* The issues reported for index i, and the records a valid count may hold.
IssuesAt(i) ==
    {k \in 1..Len(tool.result.issues) : tool.result.issues[k][2] = i}

WellFormed(agency) ==
    /\ agency.agency_name \notin {EmptyStr, None}
    /\ agency.section \notin {EmptyStr, None}
    /\ (StartsWith(agency.homepage_url, SchemeHttp)
        \/ StartsWith(agency.homepage_url, SchemeHttps))

\* C12: a record with agency_name "" has an issue reported for its index and
\* is outside the valid count (so validation_passed is False); a record with
\* a name, a section and an http(s):// URL has no issue reported and is
\* inside the valid count.
C12_ValidatorSound ==
    (tool.op = "validate" /\ tool.pc = "done") =>
        LET named == {k \in 1..Len(tool.agencies) : tool.agencies[k].agency_name # EmptyStr}
            good == {k \in 1..Len(tool.agencies) : WellFormed(tool.agencies[k])}
        IN  /\ \A k \in 1..Len(tool.agencies) :
                  tool.agencies[k].agency_name = EmptyStr =>
                      /\ IssuesAt(k - 1) # {}
                      /\ ~tool.result.validation_passed
            /\ \A k \in good : IssuesAt(k - 1) = {}
            /\ Cardinality(good) <= tool.result.valid_agencies
            /\ tool.result.valid_agencies <= Cardinality(named)
            /\ tool.result.invalid_agencies = Len(tool.agencies) - tool.result.valid_agencies

\* A list with a well-formed record and a record whose only defect is the
\* empty name: one valid, one issue.
C12_Witness ==
    /\ tool.op = "validate"
    /\ tool.pc = "done"
    /\ Len(tool.agencies) = 2
    /\ WellFormed(tool.agencies[1])
    /\ tool.agencies[2].agency_name = EmptyStr
    /\ WellFormed([tool.agencies[2] EXCEPT !.agency_name = <<"epa">>])
    /\ tool.result.valid_agencies = 1
    /\ tool.result.issues = <<<<"Empty agency name at index", 1>>>>

(***************************************************************************)
(* scraper/core.py: GovernmentAgencyScraper.export_data, and the files     *)
(* read back with csv.DictReader and json.load                             *)
(***************************************************************************)
FieldNames == <<"section", "agency_name", "homepage_url", "parent_department">>

Quote == "\""

\* The csv writer: None is written as the empty field; a field that holds a
\* comma or a quote is quoted, its quotes doubled.
RECURSIVE DoubleQuotes(_)
DoubleQuotes(s) ==
    IF s = << >> THEN << >>
    ELSE (IF Head(s) = Quote THEN <<Quote, Quote>> ELSE <<Head(s)>>) \o DoubleQuotes(Tail(s))

CsvWriteField(v) ==
    LET s == IF v = None THEN EmptyStr ELSE v
    IN  IF \E i \in 1..Len(s) : s[i] \in {",", Quote}
        THEN <<Quote>> \o DoubleQuotes(s) \o <<Quote>>
        ELSE s

\* The csv reader: a quoted field without its quotes, doubled quotes
\* halved; any other field as it is.  Every value read is a string.
RECURSIVE HalveQuotes(_)
HalveQuotes(s) ==
    IF s = << >> THEN << >>
    ELSE IF Len(s) >= 2 /\ s[1] = Quote /\ s[2] = Quote
    THEN <<Quote>> \o HalveQuotes(Tail(Tail(s)))
    ELSE <<Head(s)>> \o HalveQuotes(Tail(s))

CsvReadField(f) ==
    IF Len(f) >= 2 /\ Head(f) = Quote /\ f[Len(f)] = Quote
    THEN HalveQuotes(SubSeq(f, 2, Len(f) - 1))
    ELSE f

\* json.dump / json.load of a value: null for None, a quoted string
\* literal otherwise.
JsonDumpValue(v) == IF v = None THEN <<"null">> ELSE <<Quote>> \o v \o <<Quote>>

JsonLoadValue(t) == IF t = <<"null">> THEN None ELSE SubSeq(t, 2, Len(t) - 1)

\* writer.writeheader(); writer.writerows(agencies): the rows of the file,
\* each the fields in the order of fieldnames.
CsvFile(agencies) ==
    <<[k \in 1..Len(FieldNames) |-> FieldNames[k]]>>
    \o [r \in 1..Len(agencies) |->
          [k \in 1..Len(FieldNames) |-> CsvWriteField(agencies[r][FieldNames[k]])]]

\* list(csv.DictReader(f)): one dict per row after the header, keyed by
\* the header's names.
CsvRead(file) ==
    [r \in 1..(Len(file) - 1) |->
        [name \in {file[1][k] : k \in 1..Len(file[1])} |->
            CsvReadField(file[r + 1][CHOOSE k \in 1..Len(file[1]) : file[1][k] = name])]]

\* json.dump(agencies, f): the array of objects.
JsonFile(agencies) ==
    [r \in 1..Len(agencies) |->
        [name \in DOMAIN agencies[r] |-> JsonDumpValue(agencies[r][name])]]

\* json.load(f)
JsonRead(file) ==
    [r \in 1..Len(file) |->
        [name \in DOMAIN file[r] |-> JsonLoadValue(file[r][name])]]

ExportNames == {EmptyStr, <<"epa">>, <<"epa", ",", " ", "x">>}
ExportParents == {None, EmptyStr, <<"Parent Dept">>}
ExportRecords ==
    [section : {<<"A">>}, agency_name : ExportNames,
     homepage_url : {HttpsUrl(<<"h.gov">>)}, parent_department : ExportParents]

\* scraper.export_data(agencies, output_dir)
ExportData ==
    /\ tool.op = "export"
    /\ tool.pc = "input"
    /\ tool' = [tool EXCEPT !.pc = "written",
                            !.csv = CsvFile(tool.agencies),
                            !.json = JsonFile(tool.agencies)]
    /\ UNCHANGED <<disk, conn, run, clock, hist, procs, lock>>

\* csv_data = list(csv.DictReader(f)); json_data = json.load(f)
ReadBack ==
    /\ tool.op = "export"
    /\ tool.pc = "written"
    /\ tool' = [tool EXCEPT !.pc = "read",
                            !.csv_data = CsvRead(tool.csv),
                            !.json_data = JsonRead(tool.json)]
    /\ UNCHANGED <<disk, conn, run, clock, hist, procs, lock>>

InitExport ==
    \E agencies \in SeqsUpTo(ExportRecords, MaxAgencies) :
        InitTool([op |-> "export", pc |-> "input", agencies |-> agencies,
                  csv |-> << >>, json |-> << >>, csv_data |-> << >>, json_data |-> << >>])

SpecExport == InitExport /\ [][ExportData \/ ReadBack]_vars

\* C13: the CSV read back holds as many records as the JSON read back, in
\* the same order, each equal to the JSON record in agency_name,
\* homepage_url, parent_department and section.
C13_CsvJsonParity ==
    (tool.op = "export" /\ tool.pc = "read") =>
        /\ Len(tool.csv_data) = Len(tool.json_data)
        /\ \A r \in 1..Len(tool.csv_data) :
              \A k \in 1..Len(FieldNames) :
                  tool.csv_data[r][FieldNames[k]] = tool.json_data[r][FieldNames[k]]

(***************************************************************************)
(* The agency-index extractors: parse_agency_section of scraper/core.py    *)
(* and scraper/botasaurus_core.py, parse_all_agencies of                   *)
(* scraper/botasaurus_scraper.py.  A page is the sequence of the sibling   *)
(* elements of its content area: each an h2, a p or an a, with its text    *)
(* and the href of every anchor it is or holds, in document order.         *)
(***************************************************************************)
MaxElems == 3       \* elements of a page

\* len(t), t.upper(), and "one alphabetic upper-case character" of a token
TokLen(t) ==
    CASE t \in {"A", "a", "B", "(", ")", " "} -> 1
      [] t = "USDA" -> 4
      [] t = "ureau" -> 5
      [] t = "griculture " -> 11
      [] OTHER -> 2

RECURSIVE StrLen(_)
StrLen(s) == IF s = << >> THEN 0 ELSE TokLen(Head(s)) + StrLen(Tail(s))

UpperTok(t) ==
    CASE t = "a" -> "A"
      [] t = "ureau" -> "UREAU"
      [] t = "griculture " -> "GRICULTURE "
      [] OTHER -> t

Upper(s) == [i \in 1..Len(s) |-> UpperTok(s[i])]

IsAlpha(s) == s # << >> /\ \A i \in 1..Len(s) : s[i] \notin {"(", ")", " "}

IsUpper(s) == IsAlpha(s) /\ Upper(s) = s

\* len(x) == 1 and x.isalpha() and x.isupper()
IsLetterHeader(text) == StrLen(text) = 1 /\ IsAlpha(text) /\ IsUpper(text)

UsaGov == SchemeHttps \o BaseHost

IsAbsolute(url) == StartsWith(url, SchemeHttp) \/ StartsWith(url, SchemeHttps)

\* if not url.startswith(('http://', 'https://')): url = urljoin(base, url)
Absolute(url) == IF IsAbsolute(url) THEN url ELSE UrlJoinBase(url)

\* The hrefs of the anchors that follow the start of element k in document
\* order: those inside it, then those of the later elements.
RECURSIVE HrefsFrom(_, _)
HrefsFrom(body, k) ==
    IF k > Len(body) THEN << >> ELSE body[k].hrefs \o HrefsFrom(body, k + 1)

\* next_element.find_all('a', href=True): the anchors inside the element.
HrefsInside(element) == IF element.tag = "a" THEN << >> ELSE element.hrefs

\* core.py: the checks of one h2 and of its link.
CoreKeeps(header, href, section_id) ==
    /\ ~IsLetterHeader(header)
    /\ StartsWith(Upper(header), Upper(section_id))
    /\ href # EmptyStr
    /\ ~StartsWith(Absolute(href), UsaGov)

\* core.py parse_agency_section: the agencies of the h2 elements from k on.
RECURSIVE CoreParseFrom(_, _, _)
CoreParseFrom(body, section_id, k) ==
    IF k > Len(body) THEN << >>
    ELSE LET agency_name == Strip(body[k].text)
             after == HrefsFrom(body, k)
             found == /\ body[k].tag = "h2"
                      /\ after # << >>
                      /\ CoreKeeps(agency_name, Head(after), section_id)
         IN  (IF found
              THEN <<[agency_name |-> agency_name,
                      homepage_url |-> Absolute(Head(after)),
                      parent_department |-> None,
                      section |-> section_id]>>
              ELSE << >>)
             \o CoreParseFrom(body, section_id, k + 1)

CoreParse(page, section_id) == CoreParseFrom(page.body, section_id, 1)

\* botasaurus_core.py: the first link that is non-empty and does not start
\* with https://www.usa.gov, made absolute; None when there is none.
RECURSIVE FirstExternal(_)
FirstExternal(links) ==
    IF links = << >> THEN None
    ELSE IF Head(links) # EmptyStr /\ ~StartsWith(Head(links), UsaGov)
    THEN Absolute(Head(links))
    ELSE FirstExternal(Tail(links))

\* botasaurus_core.py: the abbreviation in parentheses, if it is short.
ParentDept(header_text) ==
    LET open == Find(header_text, {"("})
        close == Find(header_text, {")"})
        abbrev == SubSeq(header_text, open + 1, close - 1)
    IN  IF open <= Len(header_text) /\ close <= Len(header_text) /\ StrLen(abbrev) <= 10
        THEN abbrev ELSE None

\* botasaurus_core.py parse_agency_section, from element k on.
RECURSIVE BotaCoreParseFrom(_, _, _)
BotaCoreParseFrom(body, section_id, k) ==
    IF k > Len(body) THEN << >>
    ELSE LET header_text == Strip(body[k].text)
             links == IF k < Len(body) THEN HrefsInside(body[k + 1]) ELSE << >>
             found == /\ body[k].tag = "h2"
                      /\ ~IsLetterHeader(header_text)
                      /\ StrLen(header_text) >= 3
                      /\ StartsWith(Upper(header_text), Upper(section_id))
                      /\ links # << >>
                      /\ FirstExternal(links) # None
                      /\ FirstExternal(links) # EmptyStr
         IN  (IF found
              THEN <<[agency_name |-> header_text,
                      homepage_url |-> FirstExternal(links),
                      parent_department |-> ParentDept(header_text),
                      section |-> section_id]>>
              ELSE << >>)
             \o BotaCoreParseFrom(body, section_id, k + 1)

BotaCoreParse(page, section_id) ==
    IF page.main THEN BotaCoreParseFrom(page.body, section_id, 1) ELSE << >>

\* botasaurus_scraper.py parse_all_agencies, from element k on, letter
\* being current_section_letter.
RECURSIVE BotaAllParseFrom(_, _, _)
BotaAllParseFrom(body, letter, k) ==
    IF k > Len(body) THEN << >>
    ELSE LET header_text == Strip(body[k].text)
             isHeader == body[k].tag = "h2"
             marker == isHeader /\ IsLetterHeader(header_text)
             links == IF k < Len(body) THEN HrefsInside(body[k + 1]) ELSE << >>
             found == /\ isHeader
                      /\ ~marker
                      /\ StrLen(header_text) >= 3
                      /\ links # << >>
                      /\ Head(links) # EmptyStr
                      /\ ~StartsWith(Absolute(Head(links)), UsaGov)
         IN  (IF found
              THEN <<[agency_name |-> header_text,
                      homepage_url |-> Absolute(Head(links)),
                      parent_department |-> None,
                      section |-> IF Truthy(letter) THEN letter
                                  ELSE Upper(<<Head(header_text)>>)]>>
              ELSE << >>)
             \o BotaAllParseFrom(body, IF marker THEN header_text ELSE letter, k + 1)

BotaAllParse(page) ==
    IF page.main THEN BotaAllParseFrom(page.body, None, 1) ELSE << >>

\* The pages: headers, paragraphs and anchors with these texts and hrefs.
HeaderTexts ==
    {<<"A">>, <<"a">>, <<"A", "griculture ", "(", "USDA", ")">>, <<"B", "ureau">>}

ExternalHref == HttpsUrl(<<"h.gov">>)
InternalHref == UsaGov \o <<"/", "x">>
RelativeHref == <<"/", "x">>
InternalHttpHref == SchemeHttp \o BaseHost \o <<"/", "x">>
LookalikeHref == UsaGov \o <<".example.org">>

Hrefs ==
    {EmptyStr, ExternalHref, InternalHref, RelativeHref, InternalHttpHref, LookalikeHref}

Elements ==
    {[tag |-> "h2", text |-> t, hrefs |-> << >>] : t \in HeaderTexts}
    \cup {[tag |-> "p", text |-> <<"x">>, hrefs |-> h] :
             h \in {<< >>, <<RelativeHref>>, <<ExternalHref>>, <<InternalHttpHref>>,
                   <<InternalHref, ExternalHref>>}}
    \cup {[tag |-> "a", text |-> <<"x">>, hrefs |-> <<h>>] : h \in Hrefs}

Sections == {<<"A">>, <<"B">>}

Parsers == {"core", "botasaurus_core", "botasaurus_scraper"}

\* scraper.parse_agency_section(soup, section_id), of core.py
ParseCore ==
    /\ tool.op = "parse"
    /\ tool.pc = "input"
    /\ tool.parser = "core"
    /\ tool' = [tool EXCEPT !.pc = "done",
                            !.agencies = CoreParse(tool.page, tool.section_id)]
    /\ UNCHANGED <<disk, conn, run, clock, hist, procs, lock>>

\* parse_agency_section(soup, section_id), of botasaurus_core.py
ParseBotaCore ==
    /\ tool.op = "parse"
    /\ tool.pc = "input"
    /\ tool.parser = "botasaurus_core"
    /\ tool' = [tool EXCEPT !.pc = "done",
                            !.agencies = BotaCoreParse(tool.page, tool.section_id)]
    /\ UNCHANGED <<disk, conn, run, clock, hist, procs, lock>>

\* parse_all_agencies(soup), of botasaurus_scraper.py
ParseBotaAll ==
    /\ tool.op = "parse"
    /\ tool.pc = "input"
    /\ tool.parser = "botasaurus_scraper"
    /\ tool' = [tool EXCEPT !.pc = "done", !.agencies = BotaAllParse(tool.page)]
    /\ UNCHANGED <<disk, conn, run, clock, hist, procs, lock>>

InitParse ==
    \E body \in SeqsUpTo(Elements, MaxElems), main \in BOOLEAN,
       section_id \in Sections, parser \in Parsers :
        InitTool([op |-> "parse", pc |-> "input", parser |-> parser,
                  page |-> [main |-> main, body |-> body],
                  section_id |-> section_id, agencies |-> << >>])

SpecParse == InitParse /\ [][ParseCore \/ ParseBotaCore \/ ParseBotaAll]_vars

Parsed == tool.op = "parse" /\ tool.pc = "done"

\* C15: no record of any of the three extractors has a homepage_url whose
\* host is the listing page's own, www.usa.gov.
C15_NoListingHostUrl ==
    Parsed =>
        \A r \in 1..Len(tool.agencies) : Netloc(tool.agencies[r].homepage_url) # BaseHost

\* C16: parse_agency_section (core.py, botasaurus_core.py) emits no record
\* whose agency_name is a single alphabetic character.
C16_NoSingleLetterName ==
    (Parsed /\ tool.parser \in {"core", "botasaurus_core"}) =>
        \A r \in 1..Len(tool.agencies) :
            ~(StrLen(tool.agencies[r].agency_name) = 1
              /\ IsAlpha(tool.agencies[r].agency_name))

\* An absolute http(s) URL on another host than the listing page's.
IsExternal(url) == IsAbsolute(url) /\ Netloc(url) \notin {EmptyStr, BaseHost}

\* C17: where a heading that is no section marker and matches the section,
\* the only heading with its text, is followed by a paragraph without links
\* and then by an anchor to an external site, core.py's
\* parse_agency_section yields exactly one record with the heading's text
\* as agency_name, and its homepage_url is the anchor's href.
C17_HeadingThenLink ==
    (Parsed /\ tool.parser = "core") =>
        \A k \in 1..(Len(tool.page.body) - 2) :
            LET body == tool.page.body
                named == {r \in 1..Len(tool.agencies) :
                            tool.agencies[r].agency_name = Strip(body[k].text)}
            IN  (/\ body[k].tag = "h2"
                 /\ StrLen(Strip(body[k].text)) > 1
                 /\ StartsWith(Upper(Strip(body[k].text)), Upper(tool.section_id))
                 /\ \A j \in 1..Len(body) :
                       (body[j].tag = "h2" /\ body[j].text = body[k].text) => j = k
                 /\ body[k + 1].tag = "p"
                 /\ body[k + 1].hrefs = << >>
                 /\ body[k + 2].tag = "a"
                 /\ IsExternal(body[k + 2].hrefs[1]))
                => /\ Cardinality(named) = 1
                   /\ \A r \in named :
                         tool.agencies[r].homepage_url = body[k + 2].hrefs[1]

(***************************************************************************)
(* scraper/core.py: GovernmentAgencyScraper.scrape_section, one turn of    *)
(* its retry loop at a time                                                *)
(***************************************************************************)
MaxRetries == 3     \* the largest max_retries a scraper is constructed with

\* What the index page may hold when a fetch succeeds.
ScrapeElements ==
    {[tag |-> "h2", text |-> <<"A", "griculture ", "(", "USDA", ")">>, hrefs |-> << >>],
     [tag |-> "h2", text |-> <<"B", "ureau">>, hrefs |-> << >>],
     [tag |-> "p", text |-> <<"x">>, hrefs |-> << >>],
     [tag |-> "a", text |-> <<"x">>, hrefs |-> <<ExternalHref>>],
     [tag |-> "a", text |-> <<"x">>, hrefs |-> <<InternalHref>>]}

ScrapePages == {[main |-> TRUE, body |-> b] : b \in SeqsUpTo(ScrapeElements, 2)}

NoResponse == [main |-> FALSE, body |-> << >>]

\* What a function that ends without a return statement returns.
ReturnedNone == [returned |-> "None"]

\* for attempt in range(self.max_retries): the try block, and the except
\* block when the get, raise_for_status or the parse raises.
ScrapeAttempt ==
    /\ tool.op = "scrape"
    /\ tool.pc = "loop"
    /\ tool.attempt < tool.max_retries
    /\ \/ \E page \in ScrapePages :
             LET agencies == CoreParse(page, tool.section_id)
             IN  tool' = [tool EXCEPT
                            !.pc = "returned",
                            !.outcomes = Append(@, "ok"),
                            !.response = page,
                            !.sections_scraped = @ + 1,
                            !.agencies_found = @ + Len(agencies),
                            !.result = [returned |-> "dict",
                                        section |-> tool.section_id,
                                        success |-> TRUE,
                                        agency_count |-> Len(agencies),
                                        agencies |-> agencies]]
       \/ LET error_msg == <<"Attempt", tool.attempt + 1, "failed for section",
                             tool.section_id>>
          IN  IF tool.attempt = tool.max_retries - 1
              THEN tool' = [tool EXCEPT
                              !.pc = "returned",
                              !.outcomes = Append(@, "error"),
                              !.errors = Append(@, error_msg),
                              !.result = [returned |-> "dict",
                                          section |-> tool.section_id,
                                          success |-> FALSE,
                                          error |-> error_msg,
                                          agencies |-> << >>]]
              ELSE tool' = [tool EXCEPT !.outcomes = Append(@, "error"),
                                        !.attempt = @ + 1]
    /\ UNCHANGED <<disk, conn, run, clock, hist, procs, lock>>

\* The loop ends without having returned: the function returns None.
ScrapeFallsThrough ==
    /\ tool.op = "scrape"
    /\ tool.pc = "loop"
    /\ tool.attempt >= tool.max_retries
    /\ tool' = [tool EXCEPT !.pc = "returned", !.result = ReturnedNone]
    /\ UNCHANGED <<disk, conn, run, clock, hist, procs, lock>>

InitScrape ==
    \E section_id \in Sections, max_retries \in 0..MaxRetries :
        InitTool([op |-> "scrape", pc |-> "loop", section_id |-> section_id,
                  max_retries |-> max_retries, attempt |-> 0, outcomes |-> << >>,
                  response |-> NoResponse, sections_scraped |-> 0,
                  agencies_found |-> 0, errors |-> << >>, result |-> ReturnedNone])

SpecScrape == InitScrape /\ [][ScrapeAttempt \/ ScrapeFallsThrough]_vars

MaxAnchors == 2     \* anchors with an href on a seed page

\* urljoin(base_url, href) for an absolute href, a "//host/..." href or a
\* path that starts with "/".
UrlJoin(base_url, href) ==
    LET p == UrlSplit(href)
        b == UrlSplit(base_url)
    IN  IF p.scheme # << >> THEN href
        ELSE b.scheme \o <<"/", "/">>
             \o (IF p.netloc # << >> THEN p.netloc ELSE b.netloc)
             \o p.path
             \o (IF p.query # << >> THEN <<"?">> \o p.query ELSE << >>)
             \o (IF p.fragment # << >> THEN <<"#">> \o p.fragment ELSE << >>)

WwwDot == "www."

\* netloc[4:] if netloc.startswith('www.') else netloc
NormalizeDomain(url) ==
    LET netloc == Lower(Netloc(url))
    IN  IF StartsWith(netloc, <<WwwDot>>) THEN Drop(netloc, 1) ELSE netloc

\* The last parts of a netloc that end in ".gov" or ".us".
GovEndings == {"usa.gov", "USA.GOV", "dmv.ca.gov", "city.us", "n.gov", "h.gov"}

\* GOV_DOMAIN_RE.search(domain)
GovDomainRe(domain) == domain # << >> /\ domain[Len(domain)] \in GovEndings

Aggregator == {<<"usa.gov">>, <<WwwDot, "usa.gov">>}

\* found after the anchors hrefs[k..], given found before them.
RECURSIVE GovLinksFrom(_, _, _, _)
GovLinksFrom(base_url, hrefs, k, found) ==
    IF k > Len(hrefs) THEN found
    ELSE LET full == UrlJoin(base_url, hrefs[k])
             domain == NormalizeDomain(full)
         IN  IF domain # << >> /\ GovDomainRe(domain) /\ domain \notin Aggregator
             THEN GovLinksFrom(base_url, hrefs, k + 1, found \cup {domain})
             ELSE GovLinksFrom(base_url, hrefs, k + 1, found)

ExtractGovLinks(base_url, hrefs) == GovLinksFrom(base_url, hrefs, 1, {})

UserInfo == "user@"
Port == ":443"

\* urlparse(url).hostname: the netloc without user information and port,
\* in lower case.
Hostname(url) ==
    LET netloc == Netloc(url)
        noUser == IF netloc # << >> /\ Head(netloc) = UserInfo THEN Tail(netloc)
                  ELSE netloc
        noPort == IF noUser # << >> /\ noUser[Len(noUser)] = Port
                  THEN Take(noUser, Len(noUser) - 1) ELSE noUser
    IN  Lower(noPort)

SeedUrls == {SchemeHttps \o <<WwwDot, "usa.gov">>, SchemeHttps \o <<"dmv.ca.gov">>}

AnchorHrefs ==
    {SchemeHttps \o <<WwwDot, "usa.gov", "/", "about">>,
     SchemeHttps \o <<"usa.gov">>,
     <<"HTTPS:", "/", "/", "USA.GOV">>,
     SchemeHttps \o <<"dmv.ca.gov">>,
     SchemeHttps \o <<WwwDot, "dmv.ca.gov", "/", "x">>,
     SchemeHttp \o <<"city.us">>,
     SchemeHttps \o <<"example.com">>,
     <<"/", "about">>,
     <<"/", "/", "dmv.ca.gov", "/", "x">>,
     SchemeHttps \o <<"dmv.ca.gov", Port, "/">>,
     SchemeHttps \o <<UserInfo, "usa.gov", "/">>,
     SchemeHttps \o <<WwwDot, WwwDot, "usa.gov">>}

ExtractLinks ==
    /\ tool.op = "links"
    /\ tool.pc = "start"
    /\ tool' = [tool EXCEPT !.pc = "done",
                            !.found = ExtractGovLinks(tool.base_url, tool.hrefs)]
    /\ UNCHANGED <<disk, conn, run, clock, hist, procs, lock>>

InitLinks ==
    \E base_url \in SeedUrls, hrefs \in SeqsUpTo(AnchorHrefs, MaxAnchors) :
        InitTool([op |-> "links", pc |-> "start", base_url |-> base_url,
                  hrefs |-> hrefs, found |-> {}])

SpecLinks == InitLinks /\ [][ExtractLinks]_vars

\* The absolute URL an anchor of the page points to.
LinkTarget(k) == UrlJoin(tool.base_url, tool.hrefs[k])

\* C18: extract_gov_links never returns usa.gov or www.usa.gov; a link whose
\* host is usa.gov or www.usa.gov adds nothing to the set; a link to any
\* other host that ends in .gov or .us puts that host, without a leading
\* "www.", in the set.
C18_DomainFilter ==
    (tool.op = "links" /\ tool.pc = "done") =>
        /\ tool.found \cap Aggregator = {}
        /\ \A k \in 1..Len(tool.hrefs) :
              LET host == Hostname(LinkTarget(k))
              IN  IF host \in Aggregator
                  THEN ExtractGovLinks(tool.base_url, <<tool.hrefs[k]>>) = {}
                  ELSE GovDomainRe(host) =>
                          (IF Head(host) = WwwDot THEN Tail(host) ELSE host)
                              \in tool.found

(***************************************************************************)
(* Claims about the discovery run                                          *)
(***************************************************************************)
\* The websites table of d has a row for the domain.
HasDomain(d, domain) == \E i \in 1..Len(d.websites) : d.websites[i].domain = domain

\* C19: a discovery run that has passed over a seed whose fetch failed is
\* still running; when it reaches its commit every domain it discovered has
\* its row, and unless the process is killed the commit puts these rows in
\* the database file.
C19_FailedSeedSkipped ==
    /\ [](hist.skipped =>
            /\ run.prog = "discover"
            /\ run.pc = "commit" => \A domain \in run.domains : HasDomain(conn, domain))
    /\ [][(hist.skipped /\ run.pc = "commit" /\ run'.prog = "idle") =>
            (Crash \/ \A domain \in run.domains : HasDomain(disk', domain))]_vars

\* A run that skipped a seed is at its commit with a discovered domain
\* that the database file does not hold yet.
C19_Witness ==
    /\ hist.skipped
    /\ run.prog = "discover"
    /\ run.pc = "commit"
    /\ \E domain \in run.domains : HasDomain(conn, domain) /\ ~HasDomain(disk, domain)

(***************************************************************************)
(* The e-mail patterns of crawl_contacts_from_db.py, utils_extractors.py   *)
(* and scrapers/email_scraper.py, on a text written as its words, spaces   *)
(* and marks                                                               *)
(***************************************************************************)
\* Runs of letters; no two of them are adjacent in a text.
WordToks == {"jane", "example", "gov", "info", "Email", "or", "call"}

Space == " "
At == "@"
Dot == "."
ObfAt == "[at]"
ObfDot == "[dot]"

\* The tokens all of whose characters are in [A-Za-z0-9._%+-] or [A-Za-z0-9.-]
AddressToks == WordToks \cup {Dot}

\* The first index from i on whose token is not in ts.
RECURSIVE RunEnd(_, _, _)
RunEnd(s, ts, i) ==
    IF i > Len(s) THEN i
    ELSE IF s[i] \in ts THEN RunEnd(s, ts, i + 1) ELSE i

\* \b before the token at i, a word
WordStart(text, i) ==
    i <= Len(text) /\ text[i] \in WordToks /\ (i = 1 \/ text[i - 1] \notin WordToks)

Greatest(S) == CHOOSE m \in S : \A n \in S : n <= m

\* The index of the last token of the match of EMAIL_RE that begins at i,
\* 0 if none begins there.
EmailMatchEnd(text, i) ==
    LET a == RunEnd(text, AddressToks, i)
        k == RunEnd(text, AddressToks, a + 1)
        ends == {m \in (a + 3)..(k - 1) : text[m] \in WordToks /\ text[m - 1] = Dot}
    IN  IF WordStart(text, i) /\ a <= Len(text) /\ text[a] = At /\ ends # {}
        THEN Greatest(ends) ELSE 0

\* EMAIL_RE.findall(text), from i on
RECURSIVE EmailFindAll(_, _)
EmailFindAll(text, i) ==
    IF i > Len(text) THEN {}
    ELSE LET e == EmailMatchEnd(text, i)
         IN  IF e > 0 THEN {SubSeq(text, i, e)} \cup EmailFindAll(text, e + 1)
             ELSE EmailFindAll(text, i + 1)

\* crawl_contacts_from_db.extract_contacts(text): the members of the
\* sorted list of addresses
ExtractContactsEmails(text) == EmailFindAll(text, 1)

\* utils_extractors.extract_basic_contacts(text): the set of addresses
ExtractBasicContactsEmails(text) == EmailFindAll(text, 1)

\* The index of the last token of the match of the [at]/[dot] pattern that
\* begins at i, 0 if none begins there.
ObfuscatedMatchEnd(text, i) ==
    LET a == RunEnd(text, {Space}, RunEnd(text, AddressToks, i))
        d == RunEnd(text, {Space}, a + 1)
        k == RunEnd(text, AddressToks, d)
        o == RunEnd(text, {Space}, k)
        t == RunEnd(text, {Space}, o + 1)
    IN  IF /\ WordStart(text, i)
           /\ a <= Len(text) /\ text[a] = ObfAt
           /\ k > d
           /\ o <= Len(text) /\ text[o] = ObfDot
           /\ t <= Len(text) /\ text[t] \in WordToks
        THEN t ELSE 0

\* re.findall of the [at]/[dot] pattern, from i on
RECURSIVE ObfuscatedFindAll(_, _)
ObfuscatedFindAll(text, i) ==
    IF i > Len(text) THEN {}
    ELSE LET e == ObfuscatedMatchEnd(text, i)
         IN  IF e > 0 THEN {SubSeq(text, i, e)} \cup ObfuscatedFindAll(text, e + 1)
             ELSE ObfuscatedFindAll(text, i + 1)

\* match.replace('[at]', '@').replace('[dot]', '.').replace(' ', '')
RECURSIVE CleanEmail(_)
CleanEmail(match) ==
    IF match = << >> THEN << >>
    ELSE LET c == Head(match)
         IN  (IF c = ObfAt THEN <<At>>
              ELSE IF c = ObfDot THEN <<Dot>>
              ELSE IF c = Space THEN << >>
              ELSE <<c>>) \o CleanEmail(Tail(match))

\* GovernmentEmailScraper.scrape_website_emails: the emails of its result
ScrapeWebsiteEmails(text) ==
    EmailFindAll(text, 1) \cup {CleanEmail(m) : m \in ObfuscatedFindAll(text, 1)}

Extractors == {"extract_contacts", "extract_basic_contacts", "scrape_website_emails"}

EmailsOf(extractor, text) ==
    CASE extractor = "extract_contacts" -> ExtractContactsEmails(text)
      [] extractor = "extract_basic_contacts" -> ExtractBasicContactsEmails(text)
      [] OTHER -> ScrapeWebsiteEmails(text)

JaneAddress == <<"jane", At, "example", Dot, "gov">>
JaneObfuscated ==
    <<"jane", Space, ObfAt, Space, "example", Space, ObfDot, Space, "gov">>

\* What a page says before, in place of and after an address.
TextBefore == {<< >>, <<"Email", ":", Space>>, <<"info", At, "example", Dot, "gov", Space>>}
TextAddress ==
    {<< >>, JaneObfuscated, JaneAddress, <<"jane", ObfAt, "example", ObfDot, "gov">>,
     <<"jane", Space, At, Space, "example", Dot, "gov">>}
TextAfter == {<< >>, <<Dot>>, <<Space, "or", Space, "call">>}

PageTexts == {b \o m \o a : b \in TextBefore, m \in TextAddress, a \in TextAfter}

\* s occurs in text.
Contains(text, s) ==
    \E i \in 1..(Len(text) - Len(s) + 1) : SubSeq(text, i, i + Len(s) - 1) = s

ExtractEmails ==
    /\ tool.op = "emails"
    /\ tool.pc = "start"
    /\ tool' = [tool EXCEPT !.pc = "done",
                            !.emails = EmailsOf(tool.extractor, tool.text)]
    /\ UNCHANGED <<disk, conn, run, clock, hist, procs, lock>>

InitEmails ==
    \E extractor \in Extractors, text \in PageTexts :
        InitTool([op |-> "emails", pc |-> "start", extractor |-> extractor,
                  text |-> text, emails |-> {}])

SpecEmails == InitEmails /\ [][ExtractEmails]_vars

\* C20: the extraction the crawl pipeline uses has jane@example.gov among
\* the addresses of every text in which "jane [at] example [dot] gov" occurs.
C20_ObfuscatedEmailFound ==
    (/\ tool.op = "emails"
     /\ tool.pc = "done"
     /\ tool.extractor = "extract_contacts"
     /\ Contains(tool.text, JaneObfuscated)) => JaneAddress \in tool.emails

(***************************************************************************)
(* api/government_contacts_api.py: get_db_connection and _validate_schema  *)
(***************************************************************************)
REQUIRED_TABLES == {"jurisdictions", "departments", "contacts", "websites"}

\* The tables and views a database file may hold.
SchemaNames == REQUIRED_TABLES \cup {"agencies", "contacts_fts"}

DbInitHint ==
    <<"Run ", "scripts/db_init.py", " to create schema, then ",
      "scripts/load_from_csv.py", " to load data.">>

NoPayload == [given |-> FALSE]

\* raise APIError(message, status_code, payload)
APIError(message, status_code, payload) ==
    [raised |-> TRUE, message |-> message, status_code |-> status_code,
     payload |-> payload]

NoError == [raised |-> FALSE]

\* _validate_schema(conn): the exception it raises, if any.
ValidateSchema(names) ==
    LET missing == {t \in REQUIRED_TABLES : t \notin names}
    IN  IF missing # {}
        THEN APIError(<<"Database schema incomplete">>, 500,
                      [given |-> TRUE, missing_tables |-> missing, hint |-> DbInitHint])
        ELSE NoError

\* get_db_connection(): connect, validate; any exception of the try block,
\* an APIError included, is replaced by APIError("Database connection
\* failed", 500).  logged is str(e) in the log line: APIError passes no
\* argument to Exception.__init__, so that its str is empty.
GetDbConnection ==
    /\ tool.op = "api"
    /\ tool.pc = "start"
    /\ LET inner == IF ~tool.connects
                    THEN [raised |-> TRUE, message |-> <<"unable to open database file">>]
                    ELSE ValidateSchema(tool.names)
       IN  tool' = [tool EXCEPT
                      !.pc = "done",
                      !.logged = IF ~tool.connects THEN inner.message ELSE << >>,
                      !.result = IF inner.raised
                                 THEN APIError(<<"Database connection failed">>, 500,
                                               NoPayload)
                                 ELSE NoError]
    /\ UNCHANGED <<disk, conn, run, clock, hist, procs, lock>>

InitApi ==
    \E names \in SUBSET SchemaNames, connects \in BOOLEAN :
        InitTool([op |-> "api", pc |-> "start", names |-> names,
                  connects |-> connects, logged |-> << >>, result |-> NoError])

SpecApi == InitApi /\ [][GetDbConnection]_vars

\* C21: when a required table is absent, get_db_connection raises an error
\* that carries the list of the missing tables and the hint that names
\* scripts/db_init.py.
C21_SchemaErrorActionable ==
    (/\ tool.op = "api"
     /\ tool.pc = "done"
     /\ tool.connects
     /\ ~(REQUIRED_TABLES \subseteq tool.names)) =>
        /\ tool.result.raised
        /\ tool.result.payload.given
        /\ tool.result.payload.missing_tables = REQUIRED_TABLES \ tool.names
        /\ \E k \in 1..Len(tool.result.payload.hint) :
              tool.result.payload.hint[k] = "scripts/db_init.py"

(***************************************************************************)
(* Claims about a match by the name|url_domain key                         *)
(***************************************************************************)
\* C22: of two input records with the same name|url_domain key and
\* different URL keys the second is dropped, and the first is retained with
\* the second's parent_department when its own is empty.
C22_NameMatchFillsGaps ==
    (/\ DedupRan
     /\ Len(tool.data) = 2
     /\ NameKeyed(tool.data[1])
     /\ NameKeyed(tool.data[2])
     /\ NameKey(tool.data[1]) = NameKey(tool.data[2])
     /\ UrlKey(tool.data[1]) # UrlKey(tool.data[2])) =>
        /\ tool.once.duplicates_removed = 1
        /\ tool.once.unique_records = <<MergeExisting(tool.data[1], tool.data[2])>>

(***************************************************************************)
(* Claims about the validator's rules                                      *)
(***************************************************************************)
\* The rules a record violates: name non-empty after whitespace is trimmed,
\* URL non-empty and starting with http:// or https://, section non-empty.
ViolatedRules(agency) ==
    (IF agency.agency_name = None \/ Strip(agency.agency_name) = EmptyStr
     THEN {"name"} ELSE {})
    \cup (IF ~(StartsWith(agency.homepage_url, SchemeHttp)
               \/ StartsWith(agency.homepage_url, SchemeHttps))
          THEN {"url"} ELSE {})
    \cup (IF agency.section \in {EmptyStr, None} THEN {"section"} ELSE {})

\* C23: validate_data reports, for each record, one issue per rule the
\* record violates; a name of whitespace only violates the name rule.
C23_OneIssuePerRule ==
    (tool.op = "validate" /\ tool.pc = "done") =>
        \A k \in 1..Len(tool.agencies) :
            Cardinality(IssuesAt(k - 1)) = Cardinality(ViolatedRules(tool.agencies[k]))

(***************************************************************************)
(* The unresolved-URL sentinels in the loader and in the discovery seeds   *)
(***************************************************************************)
\* discover_gov_sites.iter_agency_urls_from_csv on the rows of one file: the
\* URLs it yields, in order.
RECURSIVE IterAgencyUrlsFromCsv(_, _)
IterAgencyUrlsFromCsv(rows, seen) ==
    IF rows = << >> THEN << >>
    ELSE LET url == Strip(Head(rows).homepage_url)
         IN  IF url # EmptyStr /\ Lower(url) # <<"see usa.gov">> /\ url \notin seen
             THEN <<url>> \o IterAgencyUrlsFromCsv(Tail(rows), seen \cup {url})
             ELSE IterAgencyUrlsFromCsv(Tail(rows), seen)

\* "Not found" and "See USA.gov", in lower case
Sentinels == {<<"not found">>, <<"see usa.gov">>}

IsSentinel(url) == Lower(Strip(url)) \in Sentinels

\* C24: after the loader has run on a file, no department row and no
\* website row holds a sentinel as its URL, and no sentinel is among the seed URLs that discovery reads from the file.
C24_SentinelIsAbsent ==
    (tool.op = "load" /\ hist.loads >= 1) =>
        /\ \A i \in 1..Len(disk.departments) : ~IsSentinel(disk.departments[i].website_url)
        /\ \A i \in 1..Len(disk.websites) : ~IsSentinel(disk.websites[i].full_url)
        /\ LET seeds == IterAgencyUrlsFromCsv(tool.csv, {})
           IN  \A k \in 1..Len(seeds) : ~IsSentinel(seeds[k])

(***************************************************************************)
(* scripts/ingest_authoritative_domains.py on one file, then               *)
(* scripts/discover_gov_sites.py with a --default-level                    *)
(***************************************************************************)
MaxIngest == 2      \* rows of the domains file

LevelNames == {"federal", "state", "county", "city", "local"}

\* (row.get('level') or '').strip().lower()
StripLowerLevel(level) ==
    CASE level = "State " -> "state"
      [] level = " " -> ""
      [] OTHER -> level

\* ingest_authoritative_domains: LEVEL_ORDER.get(level, 99)
IngestLevelOrder(level) == IF level \in LevelNames THEN LevelOrder(level) ELSE 99

\* ingest_authoritative_domains.upsert_jurisdiction: the database after it.
IngestUpsertJurisdiction(d, name, level, state_code) ==
    IF \E i \in 1..Len(d.jurisdictions) :
          /\ d.jurisdictions[i].name = name
          /\ d.jurisdictions[i].level = level
          /\ d.jurisdictions[i].state_code = state_code
    THEN d
    ELSE [d EXCEPT !.jurisdictions =
            Append(@, [name |-> name, level |-> level,
                       level_order |-> IngestLevelOrder(level),
                       state_code |-> state_code])]

\* ingest_file: the database after the rows.
RECURSIVE IngestFile(_, _)
IngestFile(d, rows) ==
    IF rows = << >> THEN d
    ELSE LET row == Head(rows)
             domain == Lower(Strip(row.domain))
             level == StripLowerLevel(row.level)
             name == IF Strip(row.name) # EmptyStr THEN Strip(row.name) ELSE domain
         IN  IF domain = EmptyStr \/ level = ""
             THEN IngestFile(d, Tail(rows))
             ELSE LET d1 == IngestUpsertJurisdiction(d, name, level, EmptyStr)
                      jid == CHOOSE i \in 1..Len(d1.jurisdictions) :
                                /\ d1.jurisdictions[i].name = name
                                /\ d1.jurisdictions[i].level = level
                                /\ \A j \in 1..(i - 1) :
                                      ~(d1.jurisdictions[j].name = name
                                        /\ d1.jurisdictions[j].level = level)
                  IN  IngestFile(UpsertWebsite(d1, jid, domain), Tail(rows))

IngestRows ==
    [domain : {EmptyStr, <<"a.gov">>, <<"H.GOV", " ">>},
     level : {"", " ", "state", "State ", "town"},
     name : {EmptyStr, <<"epa">>}]

\* What --default-level may be: the option has no choices.
DefaultLevels == {"local", "state", "tribal"}

\* ingest_authoritative_domains.main on the one file: ingest_file, commit.
IngestMain ==
    /\ tool.op = "ingest"
    /\ tool.pc = "start"
    /\ disk' = IngestFile(disk, tool.rows)
    /\ conn' = disk'
    /\ tool' = [tool EXCEPT !.pc = "ingested"]
    /\ UNCHANGED <<run, clock, hist, procs, lock>>

\* discover_gov_sites.main from its upsert loop on, for one discovered
\* domain: upsert_jurisdiction, upsert_website, commit.
DiscoverAtLevel ==
    /\ tool.op = "ingest"
    /\ tool.pc = "ingested"
    /\ \E domain \in Discoverable :
          LET d1 == UpsertJurisdiction(disk, domain, tool.default_level)
              jid == SelectJurisdiction(d1, domain, tool.default_level)
          IN  disk' = UpsertWebsite(d1, jid, domain)
    /\ conn' = disk'
    /\ tool' = [tool EXCEPT !.pc = "discovered"]
    /\ UNCHANGED <<run, clock, hist, procs, lock>>

InitIngest ==
    /\ disk = EmptyDb
    /\ conn = EmptyDb
    /\ run = IdleRun(NoArgs)
    /\ clock = 1
    /\ hist = HistInit
    /\ procs = NoProcs
    /\ lock = 0
    /\ \E rows \in SeqsUpTo(IngestRows, MaxIngest), default_level \in DefaultLevels :
          tool = [op |-> "ingest", pc |-> "start", rows |-> rows,
                  default_level |-> default_level]

SpecIngest == InitIngest /\ [][IngestMain \/ DiscoverAtLevel]_vars

\* C25: every jurisdiction row has one of the five levels and the
\* level_order of that level.
C25_LevelsEnumerated ==
    tool.op = "ingest" =>
        \A i \in 1..Len(disk.jurisdictions) :
            /\ disk.jurisdictions[i].level \in LevelNames
            /\ disk.jurisdictions[i].level_order = LevelOrder(disk.jurisdictions[i].level)

(***************************************************************************)
(* scripts/db_init.py: a table with its FTS5 mirror and the three triggers *)
(* that maintain it.  The mirror is an external-content index: it holds    *)
(* entries (rowid, indexed values) and reads column values from the table. *)
(***************************************************************************)
MaxRowId == 2       \* primary keys in use
MaxStatements == 3  \* statements run against the table

MirroredTables == {"contacts", "departments", "jurisdictions"}

\* The columns of the table that the triggers copy, and the columns the
\* mirror declares.
CopiedColumns(table) ==
    CASE table = "contacts" -> <<"name", "title", "email", "phone">>
      [] table = "departments" -> <<"name", "description", "category">>
      [] OTHER -> <<"name", "level", "state_code", "county_name", "city_name">>

FtsColumns(table) ==
    CASE table = "contacts" -> <<"contact_name", "title", "email", "phone">>
      [] table = "departments" -> <<"name", "description", "category">>
      [] OTHER -> <<"name", "level", "state_code", "county_name", "city_name">>

\* The values of a row's copied columns, as one value.
FieldValues == {"alice", "bob"}

Absent == "<no row>"

\* INSERT INTO t_fts(rowid, ...) VALUES (new.id, new...)
FtsInsert(fts, id, values) == [fts EXCEPT ![<<id, values>>] = @ + 1]

\* INSERT INTO t_fts(t_fts, rowid, ...) VALUES ('delete', old.id, old...)
FtsDelete(fts, id, values) ==
    [fts EXCEPT ![<<id, values>>] = IF @ > 0 THEN @ - 1 ELSE 0]

\* t_ai, t_ad, t_au
TriggerAi(fts, id, new) == FtsInsert(fts, id, new)
TriggerAd(fts, id, old) == FtsDelete(fts, id, old)
TriggerAu(fts, id, old, new) == FtsInsert(FtsDelete(fts, id, old), id, new)

\* INSERT of a row with a new primary key
FtsInsertRow ==
    /\ tool.op = "fts"
    /\ tool.statements < MaxStatements
    /\ \E id \in 1..MaxRowId, new \in FieldValues :
          /\ tool.rows[id] = Absent
          /\ tool' = [tool EXCEPT !.rows[id] = new,
                                  !.fts = TriggerAi(@, id, new),
                                  !.statements = @ + 1]
    /\ UNCHANGED <<disk, conn, run, clock, hist, procs, lock>>

\* UPDATE of a row
FtsUpdateRow ==
    /\ tool.op = "fts"
    /\ tool.statements < MaxStatements
    /\ \E id \in 1..MaxRowId, new \in FieldValues :
          /\ tool.rows[id] # Absent
          /\ tool' = [tool EXCEPT !.rows[id] = new,
                                  !.fts = TriggerAu(@, id, tool.rows[id], new),
                                  !.statements = @ + 1]
    /\ UNCHANGED <<disk, conn, run, clock, hist, procs, lock>>

\* DELETE of a row
FtsDeleteRow ==
    /\ tool.op = "fts"
    /\ tool.statements < MaxStatements
    /\ \E id \in 1..MaxRowId :
          /\ tool.rows[id] # Absent
          /\ tool' = [tool EXCEPT !.rows[id] = Absent,
                                  !.fts = TriggerAd(@, id, tool.rows[id]),
                                  !.statements = @ + 1]
    /\ UNCHANGED <<disk, conn, run, clock, hist, procs, lock>>

\* INSERT OR REPLACE of a row whose primary key exists: SQLite deletes the
\* old row without firing the delete trigger (recursive_triggers is off, the
\* default, and the schema does not set it), inserts the new row and fires
\* the insert trigger.
FtsReplaceRow ==
    /\ tool.op = "fts"
    /\ tool.statements < MaxStatements
    /\ \E id \in 1..MaxRowId, new \in FieldValues :
          /\ tool.rows[id] # Absent
          /\ tool' = [tool EXCEPT !.rows[id] = new,
                                  !.fts = TriggerAi(@, id, new),
                                  !.statements = @ + 1,
                                  !.replaced = TRUE]
    /\ UNCHANGED <<disk, conn, run, clock, hist, procs, lock>>

InitFts ==
    \E table \in MirroredTables :
        InitTool([op |-> "fts", table |-> table,
                  rows |-> [id \in 1..MaxRowId |-> Absent],
                  fts |-> [e \in (1..MaxRowId) \X FieldValues |-> 0],
                  statements |-> 0, replaced |-> FALSE])

SpecFts ==
    InitFts /\ [][FtsInsertRow \/ FtsUpdateRow \/ FtsDeleteRow \/ FtsReplaceRow]_vars

MaxSites == 2          \* rows or seeds the loop goes through
MaxContactLinks == 4   \* anchors of a homepage that name a contact page
DetectCap == 10

HomeUrl == SchemeHttps \o <<"h.gov">>

\* The hrefs of the anchors whose href or text holds "contact", "staff",
\* "directory" or "about".
ContactHrefs ==
    {<<"/", "contact">>,
     <<"/", "about">>,
     SchemeHttps \o <<"h.gov", "/", "staff">>,
     SchemeHttps \o <<"example.com", "/", "about">>}

\* list(dict.fromkeys(links)): the first occurrence of each element.
RECURSIVE FromKeys(_)
FromKeys(links) ==
    IF links = << >> THEN << >>
    ELSE LET rest == FromKeys(Take(links, Len(links) - 1))
             last == links[Len(links)]
         IN  IF \E k \in 1..Len(rest) : rest[k] = last THEN rest
             ELSE Append(rest, last)

\* detect_contact_links(base_url, soup), hrefs being the hrefs of the
\* anchors that pass its keyword test.
DetectContactLinks(base_url, hrefs) ==
    Limit(FromKeys([k \in 1..Len(hrefs) |-> UrlJoin(base_url, hrefs[k])]), DetectCap)

\* What a fetch returns: None, or a page and the addresses in it.
VisitPages == {[ok |-> FALSE, emails |-> {}]} \cup
              {[ok |-> TRUE, emails |-> e] : e \in SUBSET Emails}

\* The loop at its next row, or after its last.
VisitNext(t) ==
    [t EXCEPT !.sites = @ - 1,
              !.pc = IF t.sites = 1 THEN "done"
                     ELSE IF t.script = "crawl" THEN "home" ELSE "seed"]

\* time.sleep(delay) as the latest event, if it takes time.
Slept(t) == IF t.delay > 0 THEN "sleep" ELSE t.last

\* html = fetch(base_url); if not html: continue; extract_contacts; the
\* first links that detect_contact_links returns.
VisitHome ==
    /\ tool.op = "visit"
    /\ tool.pc = "home"
    /\ \E page \in VisitPages, hrefs \in SeqsUpTo(ContactHrefs, MaxContactLinks) :
          LET t == [tool EXCEPT !.before = tool.last, !.last = "fetch",
                                !.secondary = 0, !.hosts = {}, !.pages = {},
                                !.stored = FALSE, !.emails = {}, !.todo = << >>]
              links == Limit(DetectContactLinks(HomeUrl, hrefs), FollowCap)
          IN  IF ~page.ok
              THEN tool' = VisitNext([t EXCEPT !.failed = TRUE])
              ELSE tool' = [t EXCEPT !.emails = page.emails,
                                     !.pages = {page.emails},
                                     !.todo = links,
                                     !.pc = IF links = << >> THEN "store" ELSE "link"]
    /\ UNCHANGED <<disk, conn, run, clock, hist, procs, lock>>

\* time.sleep(args.delay); page = fetch(link); if not page: continue;
\* emails.extend(ee)
VisitLink ==
    /\ tool.op = "visit"
    /\ tool.pc = "link"
    /\ \E page \in VisitPages :
          tool' = [tool EXCEPT
                     !.before = Slept(tool), !.last = "fetch",
                     !.secondary = @ + 1,
                     !.hosts = @ \cup {Hostname(Head(tool.todo))},
                     !.emails = @ \cup page.emails,
                     !.pages = IF page.ok THEN @ \cup {page.emails} ELSE @,
                     !.todo = Tail(@),
                     !.pc = IF Len(tool.todo) = 1 THEN "store" ELSE "link"]
    /\ UNCHANGED <<disk, conn, run, clock, hist, procs, lock>>

\* upsert_department_for_site; insert_contacts(..., sorted(set(emails)), ...);
\* conn.commit(); time.sleep(args.delay)
VisitStore ==
    /\ tool.op = "visit"
    /\ tool.pc = "store"
    /\ tool' = VisitNext([tool EXCEPT !.stored = TRUE, !.last = Slept(tool)])
    /\ UNCHANGED <<disk, conn, run, clock, hist, procs, lock>>

\* html = fetch_html(url); if not html: continue; extract_gov_links;
\* if args.delay: time.sleep(args.delay)
VisitSeed ==
    /\ tool.op = "visit"
    /\ tool.pc = "seed"
    /\ \E html \in BOOLEAN :
          LET t == [tool EXCEPT !.before = tool.last, !.last = "fetch"]
          IN  IF ~html
              THEN tool' = VisitNext([t EXCEPT !.failed = TRUE])
              ELSE tool' = VisitNext([t EXCEPT !.last = Slept(t)])
    /\ UNCHANGED <<disk, conn, run, clock, hist, procs, lock>>

InitVisit ==
    \E script \in {"crawl", "discover"}, delay \in 0..1, sites \in 1..MaxSites :
        InitTool([op |-> "visit", script |-> script, delay |-> delay,
                  sites |-> sites,
                  pc |-> IF script = "crawl" THEN "home" ELSE "seed",
                  last |-> "start", before |-> "start", failed |-> FALSE,
                  secondary |-> 0, hosts |-> {}, pages |-> {}, stored |-> FALSE,
                  emails |-> {}, todo |-> << >>])

SpecVisit == InitVisit /\ [][VisitHome \/ VisitLink \/ VisitStore \/ VisitSeed]_vars

\* C27: with a delay greater than 0, what precedes a fetch of either loop
\* is the start of the loop or a sleep, never another fetch.
C27_DelayBetweenFetches ==
    (tool.op = "visit" /\ tool.delay > 0) => tool.before # "fetch"

\* C28: a site has at most 3 secondary fetches, each of a URL on the host of
\* its homepage, and the addresses stored for it are those of its homepage
\* and of the secondary pages fetched.
C28_SecondaryFetches ==
    tool.op = "visit" =>
        /\ tool.secondary <= 3
        /\ \A host \in tool.hosts : host = Hostname(HomeUrl)
        /\ tool.stored => tool.emails = UNION tool.pages

(***************************************************************************)
(* full_site_crawler.py: USAGovCrawler.crawl_site and crawl_page.  The     *)
(* limits max_depth and max_pages are attributes that main assigns before  *)
(* it calls crawl_site; the site is what its pages hold when fetched.      *)
(***************************************************************************)
MaxHops == 1      \* greatest max_depth
MaxCeiling == 3   \* greatest max_pages

\* The URLs under base_url, in the order in which a page lists them, and
\* the URLs elsewhere.
SiteOrder == <<"/", "/agencies", "/states">>
SiteUrls == {SiteOrder[k] : k \in 1..Len(SiteOrder)}
ExternalUrls == {"https://www.epa.gov/"}

\* priority_pages
PriorityPages == <<"/", "/agencies">>

\* The anchors of a page that point under base_url, in the page's order.
RECURSIVE InOrder(_, _)
InOrder(order, urls) ==
    IF order = << >> THEN << >>
    ELSE (IF Head(order) \in urls THEN <<Head(order)>> ELSE << >>)
         \o InOrder(Tail(order), urls)

\* crawl_page without the test of visited_urls.
CrawlPageReturnsRevisit(t, url, depth) ==
    depth > t.max_depth \/ t.pages_visited >= t.max_pages

\* if url in self.visited_urls or depth > self.max_depth
\*    or self.pages_visited >= self.max_pages: return
CrawlPageReturns(t, url, depth) ==
    \/ url \in t.visited_urls
    \/ depth > t.max_depth
    \/ t.pages_visited >= t.max_pages

\* The crawler after crawl_page(url, depth): ok says whether the response
\* came with status 200, internal and external are the targets of the
\* page's anchors.
CrawlPage(t, url, depth, ok, internal, external) ==
    IF CrawlPageReturns(t, url, depth) THEN [t EXCEPT !.returns = @ + 1]
    ELSE LET v == [t EXCEPT !.visited_urls = @ \cup {url},
                            !.pages_visited = @ + 1,
                            !.fetched = Append(@, <<url, depth>>)]
             new == InOrder(SiteOrder, internal \ v.visited_urls)
         IN  IF ~ok THEN v
             ELSE [v EXCEPT !.external_links = @ \cup external,
                            !.to_visit = @ \o [k \in 1..Len(new) |->
                                                  <<new[k], depth + 1>>]]

\* crawl_site up to its loop: the priority pages, then the links of the
\* page at base_url if it can be fetched.
CrawlSiteQueue ==
    /\ tool.op = "site"
    /\ tool.pc = "start"
    /\ \E ok \in BOOLEAN, internal \in SUBSET SiteUrls :
          LET nav == IF ok THEN InOrder(SiteOrder, internal) ELSE << >>
          IN  tool' = [tool EXCEPT
                         !.to_visit = [k \in 1..Len(PriorityPages) |->
                                          <<PriorityPages[k], 0>>]
                                      \o [k \in 1..Len(nav) |-> <<nav[k], 0>>],
                         !.pc = "loop"]
    /\ UNCHANGED <<disk, conn, run, clock, hist, procs, lock>>

\* One turn of "while self.to_visit and self.pages_visited < self.max_pages"
CrawlSiteTurn ==
    /\ tool.op = "site"
    /\ tool.pc = "loop"
    /\ tool.to_visit # << >>
    /\ tool.pages_visited < tool.max_pages
    /\ \E ok \in BOOLEAN, internal \in SUBSET SiteUrls, external \in SUBSET ExternalUrls :
          tool' = CrawlPage([tool EXCEPT !.to_visit = Tail(@)],
                            Head(tool.to_visit)[1], Head(tool.to_visit)[2],
                            ok, internal, external)
    /\ UNCHANGED <<disk, conn, run, clock, hist, procs, lock>>

\* The loop's end: return self.external_links
CrawlSiteReturn ==
    /\ tool.op = "site"
    /\ tool.pc = "loop"
    /\ tool.to_visit = << >> \/ tool.pages_visited >= tool.max_pages
    /\ tool' = [tool EXCEPT !.pc = "done"]
    /\ UNCHANGED <<disk, conn, run, clock, hist, procs, lock>>

InitSite ==
    \E max_depth \in 0..MaxHops, max_pages \in 1..MaxCeiling :
        InitTool([op |-> "site", pc |-> "start",
                  max_depth |-> max_depth, max_pages |-> max_pages,
                  visited_urls |-> {}, to_visit |-> << >>, pages_visited |-> 0,
                  external_links |-> {}, fetched |-> << >>, returns |-> 0])

NextSite == CrawlSiteQueue \/ CrawlSiteTurn \/ CrawlSiteReturn

\* The process is alone and every request has a timeout: a step that can be
\* taken is taken.
SpecSite == InitSite /\ [][NextSite]_vars /\ WF_vars(NextSite)

\* C29: crawl_site returns; pages_visited stays within max_pages, crawl_page
\* fetches a URL only if it is not in visited_urls, so no URL twice, and no
\* page at a depth beyond max_depth.
C29_CrawlBounded ==
    /\ <>(tool.pc = "done")
    /\ [](/\ tool.pages_visited <= tool.max_pages
          /\ \A i, j \in 1..Len(tool.fetched) :
                i # j => tool.fetched[i][1] # tool.fetched[j][1]
          /\ \A i \in 1..Len(tool.fetched) : tool.fetched[i][2] <= tool.max_depth)
    /\ [][Len(tool'.fetched) > Len(tool.fetched) =>
             tool'.fetched[Len(tool'.fetched)][1] \notin tool.visited_urls]_vars

\* A crawl has returned at its ceiling of pages with URLs left in its
\* queue, after fetching a page one hop away and after crawl_page returned
\* early from a call.
C29_Witness ==
    /\ tool.op = "site"
    /\ tool.pc = "done"
    /\ tool.pages_visited = tool.max_pages
    /\ tool.to_visit # << >>
    /\ tool.returns > 0
    /\ \E i \in 1..Len(tool.fetched) : tool.fetched[i][2] = 1

(***************************************************************************)
(* scraper/core.py: the link that parse_agency_section gives a heading     *)
(***************************************************************************)
\* The hrefs of the anchors in the elements body[k..] that come before the
\* next h2.
RECURSIVE HrefsUntilHeading(_, _)
HrefsUntilHeading(body, k) ==
    IF k > Len(body) \/ body[k].tag = "h2" THEN << >>
    ELSE body[k].hrefs \o HrefsUntilHeading(body, k + 1)

\* C30: a heading of the page, the only one with its name, that has no
\* anchor between itself and the next heading gives no record: core.py's
\* parse_agency_section does not pair it with a later heading's link.
C30_LinkOfOwnHeading ==
    (Parsed /\ tool.parser = "core") =>
        \A k \in 1..Len(tool.page.body) :
            LET body == tool.page.body
            IN  (/\ body[k].tag = "h2"
                 /\ \A j \in 1..Len(body) :
                       (body[j].tag = "h2" /\ Strip(body[j].text) = Strip(body[k].text))
                          => j = k
                 /\ HrefsUntilHeading(body, k + 1) = << >>)
                => \A r \in 1..Len(tool.agencies) :
                      tool.agencies[r].agency_name # Strip(body[k].text)

====
